---- MODULE Spec2Model ----
(***************************************************************************)
(* The query-federation composer of services/api-gateway/src/federation.py *)
(* (class FederationComposer) as a state machine: the schema load at       *)
(* startup, one client request through execute_federated_query (parse,     *)
(* route, execute, resolve entities, merge) and the detached trace task.   *)
(***************************************************************************)
EXTENDS Integers, Sequences, FiniteSets, TLC

VARIABLES
    schemas,                 \* self.schemas: subgraph -> SDL
    service_urls,            \* self.service_urls: subgraph -> base URL
    type_to_service,         \* self.type_to_service: type -> owner
    type_extensions,         \* self.type_extensions: type -> list of extenders
    query_field_to_service,  \* self.query_field_to_service: root field -> owner
    field_to_return_type,    \* self.field_to_return_type: field -> type
    run_service_calls,       \* self.run_service_calls: run id -> list of records
    run_storage_url,         \* self.run_storage_url: the trace sink, "" if none
    loader,                  \* position of lifespan / fetch_subgraph_schemas
    req,                     \* the request inside execute_federated_query
    peer,                    \* a second request, suspended at an await
    net,                     \* the HTTP calls sent so far, in order
    pure                     \* input and output of one pure function under test

vars == <<schemas, service_urls, type_to_service, type_extensions,
          query_field_to_service, field_to_return_type, run_service_calls,
          run_storage_url, loader, req, peer, net, pure>>

maps == <<schemas, service_urls, type_to_service, type_extensions,
          query_field_to_service, field_to_return_type>>

(***************************************************************************)
(* Bounds of the model.                                                    *)
(***************************************************************************)
NPosts == 1        \* posts held by the posts subgraph
NUsers == 1        \* users held by the users subgraph

(***************************************************************************)
(* JSON values, as Python sees them after response.json(): every value is  *)
(* tagged with its kind so that isinstance() can be modelled.              *)
(***************************************************************************)
JNull == [kind |-> "null"]
JStr(x) == [kind |-> "s", v |-> x]
JObj(f) == [kind |-> "o", f |-> f]
JList(items) == [kind |-> "l", items |-> items]
EmptyMap == <<>>

IsDict(v) == v.kind = "o"
IsList(v) == v.kind = "l"
Keys(v) == DOMAIN v.f
Has(v, k) == k \in DOMAIN v.f

\* Python truthiness of a JSON value
Truthy(v) ==
    CASE v.kind = "null" -> FALSE
      [] v.kind = "s" -> v.v # ""
      [] v.kind = "o" -> DOMAIN v.f # {}
      [] v.kind = "l" -> Len(v.items) > 0

\* variant: an assignment that keeps the value of a key already present
PutKeepFirst(d, k, x) ==
    [y \in (DOMAIN d) \cup {k} |-> IF y \in DOMAIN d THEN d[y] ELSE x]

\* d with key k set to x (a Python dict assignment d[k] = x)
Put(d, k, x) == [y \in (DOMAIN d) \cup {k} |-> IF y = k THEN x ELSE d[y]]

\* the elements of a sequence
Range(s) == {s[i] : i \in DOMAIN s}

(***************************************************************************)
(* Subgraphs known to the service directory, in the order of the           *)
(* directory's dict.                                                       *)
(***************************************************************************)
ServiceOrder == <<"posts", "users", "orders">>
Services == Range(ServiceOrder)
UrlOf(s) == "http://" \o s

(***************************************************************************)
(* Python string primitives over the names of the model.                   *)
(***************************************************************************)
EndsWithS(f) == f \in {"posts", "users", "orders", "things"}
StrLen(f) ==
    CASE f = "id" -> 2
      [] f = "top" -> 3
      [] f \in {"name"} -> 4
      [] f \in {"posts", "users", "title"} -> 5
      [] f \in {"orders", "author", "things"} -> 6
      [] OTHER -> 7
DropLast(f) ==
    CASE f = "posts" -> "post"
      [] f = "users" -> "user"
      [] f = "orders" -> "order"
      [] f = "things" -> "thing"
      [] OTHER -> f
Capitalize(w) ==
    CASE w = "post" -> "Post"
      [] w = "user" -> "User"
      [] w = "order" -> "Order"
      [] w = "thing" -> "Thing"
      [] w = "author" -> "Author"
      [] w = "title" -> "Title"
      [] w = "name" -> "Name"
      [] w = "id" -> "Id"
      [] w = "posts" -> "Posts"
      [] w = "users" -> "Users"
      [] w = "orders" -> "Orders"
      [] w = "things" -> "Things"
      [] w = "top" -> "Top"
      [] w = "writer" -> "Writer"
      [] w = "headline" -> "Headline"
      [] OTHER -> w

\* _field_to_type_name: "users" -> "User"
FieldToTypeName(field_name) ==
    IF EndsWithS(field_name) /\ StrLen(field_name) > 1
    THEN Capitalize(DropLast(field_name))
    ELSE Capitalize(field_name)

(***************************************************************************)
(* Schema text.  A line of SDL is kept as the parts the line scan looks    *)
(* at: a declaration line "[extend ]type Name [@key(fields: "id")]         *)
(* [@extends] {", a field line "name[(arg: ID!)]: Ret", or "}".            *)
(***************************************************************************)
DeclLine(prefix, name, key, extdir) ==
    [t |-> "decl", prefix |-> prefix, name |-> name, key |-> key,
     extdir |-> extdir, args |-> FALSE, ret |-> ""]
FieldLine(name, args, ret) ==
    [t |-> "field", prefix |-> "", name |-> name, key |-> FALSE,
     extdir |-> FALSE, args |-> args, ret |-> ret]
CloseLine ==
    [t |-> "close", prefix |-> "", name |-> "", key |-> FALSE,
     extdir |-> FALSE, args |-> FALSE, ret |-> ""]

\* line.startswith('type ')
StartsWithType(line) == line.t = "decl" /\ line.prefix = ""
\* '@key' in line
HasKeyMarker(line) == line.t = "decl" /\ line.key
\* 'extend' in line: the prefix "extend " or the directive "@extends"
ContainsExtend(line) == line.t = "decl" /\ (line.prefix = "extend" \/ line.extdir)
\* ':' in line: a field line, or the "fields:" of a key marker
HasColon(line) == line.t = "field" \/ (line.t = "decl" /\ line.key)
\* line.startswith('}')
StartsWithClose(line) == line.t = "close"
\* line.startswith('type Query')
StartsWithTypeQuery(line) == StartsWithType(line) /\ line.name = "Query"
\* line.split(':')[0].strip()
BeforeColon(line) ==
    IF line.t = "field"
    THEN (IF line.args THEN line.name \o "(id" ELSE line.name)
    ELSE "decl-head"
\* parts[1] with '!', '[', ']' removed
ReturnPart(line) ==
    IF line.t = "field"
    THEN (IF line.args THEN "ID)" ELSE line.ret)
    ELSE "decl-tail"
\* field_name.split('(')[0].strip()
BeforeParen(line) == IF line.t = "field" THEN line.name ELSE "decl-head"
Scalars == {"ID", "String", "Int", "Float", "Boolean"}

SdlOf(s) ==
    CASE s = "posts" ->
           <<DeclLine("", "Post", TRUE, FALSE),
             FieldLine("id", FALSE, "ID"),
             FieldLine("title", FALSE, "String"),
             FieldLine("author", FALSE, "User"),
             CloseLine,
             DeclLine("", "Query", FALSE, FALSE),
             FieldLine("posts", FALSE, "Post"),
             CloseLine>>
      [] s = "users" ->
           <<DeclLine("", "User", TRUE, FALSE),
             FieldLine("id", FALSE, "ID"),
             FieldLine("name", FALSE, "String"),
             CloseLine,
             DeclLine("", "Query", FALSE, FALSE),
             FieldLine("users", FALSE, "User"),
             CloseLine>>
      [] OTHER ->
           <<DeclLine("", "Order", TRUE, FALSE),
             FieldLine("id", FALSE, "ID"),
             CloseLine,
             DeclLine("", "Query", FALSE, FALSE),
             FieldLine("orders", FALSE, "Order"),
             CloseLine>>

(***************************************************************************)
(* _parse_schema_types: one pass over the lines, accumulating into the     *)
(* four shared maps.                                                       *)
(***************************************************************************)
ParseLine(st, service_name, line) ==
    IF StartsWithType(line) /\ HasKeyMarker(line)
    THEN IF ~ContainsExtend(line)
         THEN [st EXCEPT !.tts = Put(st.tts, line.name, service_name),
                         !.inside_type = line.name]
         ELSE [st EXCEPT !.ext = Put(st.ext, line.name,
                                     Append(IF line.name \in DOMAIN st.ext
                                            THEN st.ext[line.name] ELSE <<>>,
                                            service_name)),
                         !.inside_type = line.name]
    ELSE
      LET st1 == IF /\ st.inside_type # ""
                    /\ HasColon(line)
                    /\ ~StartsWithClose(line)
                    /\ ReturnPart(line) # ""
                    /\ ReturnPart(line) \notin Scalars
                 THEN [st EXCEPT !.ftr = Put(st.ftr, BeforeColon(line), ReturnPart(line))]
                 ELSE st
      IN  IF st1.inside_type # "" /\ StartsWithClose(line)
          THEN [st1 EXCEPT !.inside_type = ""]
          ELSE IF StartsWithTypeQuery(line)
          THEN [st1 EXCEPT !.inside_query = TRUE]
          ELSE IF st1.inside_query
          THEN IF StartsWithClose(line)
               THEN [st1 EXCEPT !.inside_query = FALSE]
               ELSE IF HasColon(line) /\ BeforeParen(line) # ""
               THEN [st1 EXCEPT !.qfs = Put(st1.qfs, BeforeParen(line), service_name)]
               ELSE st1
          ELSE st1

RECURSIVE ParseLines(_, _, _, _)
ParseLines(st, service_name, lines, i) ==
    IF i > Len(lines) THEN st
    ELSE ParseLines(ParseLine(st, service_name, lines[i]), service_name, lines, i + 1)

ParseSchemaTypes(m, service_name, sdl) ==
    IF sdl = <<>> THEN m
    ELSE LET st == ParseLines([tts |-> m.tts, ext |-> m.ext, qfs |-> m.qfs,
                               ftr |-> m.ftr, inside_query |-> FALSE,
                               inside_type |-> ""],
                              service_name, sdl, 1)
         IN  [tts |-> st.tts, ext |-> st.ext, qfs |-> st.qfs, ftr |-> st.ftr]

CurrentMaps ==
    [tts |-> type_to_service, ext |-> type_extensions,
     qfs |-> query_field_to_service, ftr |-> field_to_return_type]

(***************************************************************************)
(* Client queries.  graphql-core's parse() turns the query text into a     *)
(* document or raises GraphQLSyntaxError; a query is kept as what parse()  *)
(* makes of it: whether the text is syntactically valid and, if so, the    *)
(* selections of its operation.  A FieldNode is [name, alias, sel] with    *)
(* alias "" for no alias and sel <<>> for no selection set.                *)
(***************************************************************************)
Leaf(n) == [name |-> n, alias |-> "", sel |-> <<>>]
Node(n, sel) == [name |-> n, alias |-> "", sel |-> sel]
Aliased(n, a, sel) == [name |-> n, alias |-> a, sel |-> sel]

\* an inline fragment "... on T { sel }": a selection that is not a field
InlineFragment(on, sel) == [on |-> on, sel |-> sel]

\* a field with arguments: name(args) { sel }
WithArgs(n, args, sel) == [name |-> n, alias |-> "", sel |-> sel, args |-> args]

\* isinstance(selection, FieldNode)
IsFieldNode(selection) == "name" \in DOMAIN selection

AuthorSels == {<<Leaf("id")>>, <<Leaf("name")>>, <<Leaf("id"), Leaf("name")>>}
PostSiblings == {<<>>, <<Leaf("id")>>, <<Leaf("title")>>, <<Leaf("id"), Leaf("title")>>}
PostsSels ==
    {sib \o a : sib \in PostSiblings,
                a \in {<<>>} \cup {<<Node("author", s)>> : s \in AuthorSels}} \ {<<>>}
UsersSels == {<<Leaf("name")>>, <<Leaf("id"), Leaf("name")>>}

Documents ==
    {<<Node("posts", ps)>> : ps \in PostsSels}
      \cup {<<Node("users", us)>> : us \in UsersSels}
      \cup {<<Node("posts", ps), Node("users", <<Leaf("name")>>)>> :
              ps \in {<<Leaf("title")>>,
                      <<Leaf("title"), Node("author", <<Leaf("name")>>)>>}}
      \cup {<<Node("orders", <<Leaf("id")>>)>>,
            <<Node("things", <<Leaf("id")>>)>>,
            <<Node("posts", <<Leaf("title")>>), Node("users", <<Leaf("name")>>),
              Node("orders", <<Leaf("id")>>)>>,
            <<Node("things", <<Node("author", <<Leaf("name")>>)>>)>>,
            <<Node("posts", <<Leaf("id")>>),
              Aliased("posts", "top", <<Leaf("title"), Node("author", <<Leaf("name")>>)>>)>>}

Queries ==
    {[syntax_ok |-> TRUE, sels |-> d] : d \in Documents}
      \cup {[syntax_ok |-> FALSE, sels |-> <<>>]}

\* variant: a parser that accepts any text
ParseLenient(query) == [raised |-> FALSE, document |-> query.sels]

\* parse(query)
Parse(query) ==
    IF query.syntax_ok
    THEN [raised |-> FALSE, document |-> query.sels]
    ELSE [raised |-> TRUE, document |-> <<>>]

(***************************************************************************)
(* Analyzer and router.                                                    *)
(***************************************************************************)
\* _extract_queried_fields
ExtractQueriedFields(document) ==
    {document[i].name : i \in {j \in DOMAIN document : IsFieldNode(document[j])}}

\* variant: the type maps are consulted for a directly mapped field too
DetermineServicesNoContinue(queried_fields) ==
    UNION {
      (IF field_name \in DOMAIN query_field_to_service
       THEN {query_field_to_service[field_name]} ELSE {})
        \cup (IF FieldToTypeName(field_name) \in DOMAIN type_to_service
              THEN {type_to_service[FieldToTypeName(field_name)]} ELSE {})
        \cup (IF FieldToTypeName(field_name) \in DOMAIN type_extensions
              THEN Range(type_extensions[FieldToTypeName(field_name)]) ELSE {})
      : field_name \in queried_fields }

\* _determine_services_for_query, as the set the list is made of
DetermineServicesForQuery(queried_fields) ==
    UNION {
      IF field_name \in DOMAIN query_field_to_service
      THEN {query_field_to_service[field_name]}
      ELSE LET type_name == FieldToTypeName(field_name)
           IN  (IF type_name \in DOMAIN type_to_service
                THEN {type_to_service[type_name]} ELSE {})
               \cup (IF type_name \in DOMAIN type_extensions
                     THEN Range(type_extensions[type_name]) ELSE {})
      : field_name \in queried_fields }

\* self.field_to_return_type.get(field_name), else _field_to_type_name
InferType(field_name) ==
    IF field_name \in DOMAIN field_to_return_type
       /\ field_to_return_type[field_name] # ""
    THEN field_to_return_type[field_name]
    ELSE FieldToTypeName(field_name)

\* _has_nested_entity_selections
RECURSIVE HasNestedEntitySelections(_)
HasNestedEntitySelections(selection_set) ==
    \E i \in DOMAIN selection_set :
       LET selection == selection_set[i]
       IN  /\ IsFieldNode(selection)
           /\ selection.sel # <<>>
           /\ \/ /\ InferType(selection.name) \in DOMAIN type_to_service
                 /\ \E j \in DOMAIN selection.sel :
                       /\ IsFieldNode(selection.sel[j])
                       /\ selection.sel[j].name \notin {"id", "__typename"}
              \/ HasNestedEntitySelections(selection.sel)

\* _check_needs_entity_resolution
CheckNeedsEntityResolution(document) ==
    \E i \in DOMAIN document :
       /\ IsFieldNode(document[i])
       /\ document[i].sel # <<>>
       /\ HasNestedEntitySelections(document[i].sel)

(***************************************************************************)
(* Query transformer.                                                      *)
(***************************************************************************)
\* the type inference written out inside transform_field_node
TransformInferType(field_name) ==
    IF field_name \in DOMAIN field_to_return_type
       /\ field_to_return_type[field_name] # ""
    THEN field_to_return_type[field_name]
    ELSE IF EndsWithS(field_name) THEN Capitalize(DropLast(field_name))
         ELSE Capitalize(field_name)

\* the sub-selection a stubbed field is given
StubSelection == <<Leaf("id")>>

\* variant: the stub keeps the selections it had and adds id
StubbedNodeAppend(node) ==
    [node EXCEPT !.sel = node.sel \o StubSelection]

\* the FieldNode returned for an entity of another service: same name,
\* alias, arguments and directives, selection set [id]
StubbedNode(node) ==
    [node EXCEPT !.sel = StubSelection]

\* transform_field_node / transform_selection_set: a selection that is not
\* a field is appended as it is
RECURSIVE TransformFieldNode(_, _)
TransformFieldNode(node, service_name) ==
    IF node.sel = <<>> THEN node
    ELSE LET type_name == TransformInferType(node.name)
         IN  IF /\ type_name \in DOMAIN type_to_service
                /\ type_to_service[type_name] # service_name
             THEN StubbedNode(node)
             ELSE [node EXCEPT
                     !.sel = [i \in DOMAIN node.sel |->
                                IF IsFieldNode(node.sel[i])
                                THEN TransformFieldNode(node.sel[i], service_name)
                                ELSE node.sel[i]]]

\* _transform_query_for_service
TransformQueryForService(document, service_name) ==
    [i \in DOMAIN document |->
       IF IsFieldNode(document[i])
       THEN TransformFieldNode(document[i], service_name)
       ELSE document[i]]

(***************************************************************************)
(* The subgraphs (external): each holds a few objects and answers a query  *)
(* with the fields it knows.                                               *)
(***************************************************************************)
Knows(s, type, field) ==
    \/ s = "posts" /\ type = "Post" /\ field \in {"id", "title", "author"}
    \/ s = "posts" /\ type = "User" /\ field = "id"
    \/ s = "users" /\ type = "User" /\ field \in {"id", "name"}
    \/ s = "orders" /\ type = "Order" /\ field = "id"
IdPrefix(type) == CASE type = "Post" -> "p" [] type = "User" -> "u" [] OTHER -> "o"
IdOf(type, i) == IdPrefix(type) \o ToString(i)
ScalarOf(type, i, field) ==
    CASE field = "id" -> IdOf(type, i)
      [] field = "title" -> "t" \o ToString(i)
      [] OTHER -> "n" \o ToString(i)
AuthorOf(i) == ((i - 1) % NUsers) + 1
CountOf(type) == CASE type = "Post" -> NPosts [] type = "User" -> NUsers [] OTHER -> 1
RootTypeOf(s) == CASE s = "posts" -> "Post" [] s = "users" -> "User" [] OTHER -> "Order"
RootFieldOf(s) == s

\* the key a field has in the response
ResponseKey(node) == IF node.alias # "" THEN node.alias ELSE node.name

RECURSIVE EvalObject(_, _, _, _)
EvalObject(s, type, i, sel) ==
    LET known == {k \in DOMAIN sel :
                    /\ Knows(s, type, sel[k].name)
                    /\ (sel[k].name = "author") = (sel[k].sel # <<>>)}
        keys == {ResponseKey(sel[k]) : k \in known}
    IN  JObj([key \in keys |->
                LET k == CHOOSE k \in known : ResponseKey(sel[k]) = key
                IN  IF sel[k].sel = <<>>
                    THEN JStr(ScalarOf(type, i, sel[k].name))
                    ELSE EvalObject(s, "User", AuthorOf(i), sel[k].sel)])

\* the data a subgraph gives for the query sent to it
RootData(s, document) ==
    LET known == {k \in DOMAIN document :
                    document[k].name = RootFieldOf(s) /\ document[k].sel # <<>>}
        keys == {ResponseKey(document[k]) : k \in known}
    IN  JObj([key \in keys |->
                LET k == CHOOSE k \in known : ResponseKey(document[k]) = key
                IN  JList([i \in 1..CountOf(RootTypeOf(s)) |->
                             EvalObject(s, RootTypeOf(s), i, document[k].sel)])])

(***************************************************************************)
(* Python operations on decoded JSON that can raise.                       *)
(***************************************************************************)
\* `k in v` raises TypeError on None; on a str or a list it is a search
\* that finds no key of the model
InRaises(v) == v.kind = "null"
In(v, k) == v.kind = "o" /\ k \in DOMAIN v.f

RECURSIVE SetToSeq(_)
SetToSeq(S) ==
    IF S = {} THEN <<>>
    ELSE LET x == CHOOSE x \in S : TRUE IN <<x>> \o SetToSeq(S \ {x})

RECURSIVE Concat(_)
Concat(ss) == IF ss = <<>> THEN <<>> ELSE Head(ss) \o Concat(Tail(ss))

\* variant: the dict is replaced by x instead of updated with it
DictUpdateReplaces(d, x) ==
    IF x.kind = "o" THEN [raised |-> FALSE, val |-> x.f]
    ELSE [raised |-> TRUE, val |-> d]

\* dict.update(x): x a dict, or an iterable of key/value pairs.  A str
\* raises ValueError; a list raises unless every item is a pair (the
\* strings held in lists of the model are one character long).
DictUpdate(d, x) ==
    CASE x.kind = "o" ->
           [raised |-> FALSE,
            val |-> [k \in (DOMAIN d) \cup (DOMAIN x.f) |->
                       IF k \in DOMAIN x.f THEN x.f[k] ELSE d[k]]]
      [] x.kind = "l" ->
           IF \A i \in DOMAIN x.items :
                 /\ x.items[i].kind = "l"
                 /\ Len(x.items[i].items) = 2
                 /\ x.items[i].items[1].kind = "s"
           THEN [raised |-> FALSE,
                 val |-> [k \in (DOMAIN d) \cup {x.items[i].items[1].v : i \in DOMAIN x.items} |->
                            IF \E i \in DOMAIN x.items : x.items[i].items[1].v = k
                            THEN LET last == CHOOSE i \in DOMAIN x.items :
                                               /\ x.items[i].items[1].v = k
                                               /\ \A j \in DOMAIN x.items :
                                                     x.items[j].items[1].v = k => j <= i
                                 IN  x.items[last].items[2]
                            ELSE d[k]]]
           ELSE [raised |-> TRUE, val |-> d]
      [] OTHER -> [raised |-> TRUE, val |-> d]

\* list.extend(x): a list gives its items, a dict its keys, a str its
\* characters (the strings of the model have one), None raises TypeError
ListExtend(l, x) ==
    CASE x.kind = "l" -> [raised |-> FALSE, val |-> l \o x.items]
      [] x.kind = "o" -> [raised |-> FALSE,
                          val |-> l \o [i \in 1..Cardinality(DOMAIN x.f) |->
                                          JStr(SetToSeq(DOMAIN x.f)[i])]]
      [] x.kind = "s" -> [raised |-> FALSE,
                          val |-> IF x.v = "" THEN l ELSE Append(l, x)]
      [] OTHER -> [raised |-> TRUE, val |-> l]

\* a Python dict that keeps insertion order: [order, map]
EmptyDict == [order |-> <<>>, map |-> EmptyMap]
DictSet(d, k, x) ==
    [order |-> IF k \in DOMAIN d.map THEN d.order ELSE Append(d.order, k),
     map |-> Put(d.map, k, x)]

(***************************************************************************)
(* Execution engine.                                                       *)
(***************************************************************************)
ErrEntry(msg) == JObj("message" :> JStr(msg))

\* {"errors": [{"message": f"Service {service_name} error: ..."}]}
\* (detail may be a status code or str(e); kept as a string)
ErrorResult(service_name, detail) ==
    JObj("errors" :> JList(<<ErrEntry("Service " \o service_name \o " error: " \o detail)>>))

\* what a subgraph can do with a call: answer 200 with some body, answer
\* another status, or make the client raise (timeout, transport, bad JSON)
ExecOutcomes ==
    {"ok", "okErr", "errOnly", "empty", "http", "exc", "badData", "badErrors", "badBody"}

ResponseOf(outcome, s, document) ==
    CASE outcome = "http" -> [kind |-> "http", body |-> JNull]
      [] outcome = "exc" -> [kind |-> "exc", body |-> JNull]
      [] outcome = "ok" ->
           [kind |-> "200", body |-> JObj("data" :> RootData(s, document))]
      [] outcome = "okErr" ->
           [kind |-> "200",
            body |-> JObj(("data" :> RootData(s, document))
                          @@ ("errors" :> JList(<<ErrEntry("partial")>>)))]
      [] outcome = "errOnly" ->
           [kind |-> "200",
            body |-> JObj(("data" :> JNull) @@ ("errors" :> JList(<<ErrEntry("failed")>>)))]
      [] outcome = "empty" ->
           [kind |-> "200", body |-> JObj("data" :> JObj(EmptyMap))]
      [] outcome = "badData" ->
           [kind |-> "200", body |-> JObj("data" :> JList(<<JStr("x")>>))]
      [] outcome = "badErrors" ->
           [kind |-> "200",
            body |-> JObj(("data" :> RootData(s, document)) @@ ("errors" :> JNull))]
      [] OTHER -> [kind |-> "200", body |-> JNull]

\* _track_service_call
TrackServiceCall(calls, run_id, service_name, status_code, has_errors) ==
    IF run_id = "" THEN calls
    ELSE Put(calls, run_id,
             Append(IF run_id \in DOMAIN calls THEN calls[run_id] ELSE <<>>,
                    [service_name |-> service_name, status_code |-> status_code,
                     has_errors |-> has_errors]))

\* [e.get('message', str(e)) for e in result_data.get('errors', [])] raises
ErrorMessagesRaise(b) ==
    /\ In(b, "errors")
    /\ LET e == b.f["errors"]
       IN  CASE e.kind = "null" -> TRUE
             [] e.kind = "s" -> e.v # ""
             [] e.kind = "l" -> \E i \in DOMAIN e.items : e.items[i].kind # "o"
             [] e.kind = "o" -> DOMAIN e.f # {}

\* the 'data_keys' entry of the success log raises
LogSuccessRaises(b) ==
    \/ ~IsDict(b)
    \/ /\ In(b, "data")
       /\ Truthy(b.f["data"])
       /\ ~IsDict(b.f["data"])

\* one iteration of the loop of _execute_on_services, from the response on:
\* st = [results, calls]
ExecuteOnService(st, run_id, service_name, resp) ==
    LET failed(c) ==
          [results |-> DictSet(st.results, service_name, ErrorResult(service_name, "exc")),
           calls |-> TrackServiceCall(c, run_id, service_name, 0, TRUE)]
    IN  CASE resp.kind = "exc" -> failed(st.calls)
          [] resp.kind = "http" ->
               [results |-> DictSet(st.results, service_name, ErrorResult(service_name, "500")),
                calls |-> TrackServiceCall(st.calls, run_id, service_name, 500, TRUE)]
          [] OTHER ->
               IF InRaises(resp.body) \/ ErrorMessagesRaise(resp.body)
               THEN failed(st.calls)
               ELSE LET tracked == TrackServiceCall(st.calls, run_id, service_name, 200,
                                                    In(resp.body, "errors"))
                    IN  IF LogSuccessRaises(resp.body)
                        THEN failed(tracked)
                        ELSE [results |-> DictSet(st.results, service_name, resp.body),
                              calls |-> tracked]

\* one iteration of the loop of _execute_with_transformed_queries
ExecuteTransformed(st, run_id, service_name, resp) ==
    [results |->
       CASE resp.kind = "exc" -> DictSet(st.results, service_name, ErrorResult(service_name, "exc"))
         [] resp.kind = "http" -> DictSet(st.results, service_name, ErrorResult(service_name, "500"))
         [] OTHER -> DictSet(st.results, service_name, resp.body),
     calls |-> st.calls]

\* variant: a failed call ends the loop
RemainingAfterAbort(targets, resp) ==
    IF resp.kind # "200" THEN <<>> ELSE Tail(targets)

\* the services the loop still has to call once this call is over: the
\* try/except is inside the loop, so all of them
RemainingAfter(targets, resp) == Tail(targets)

(***************************************************************************)
(* Result merger.                                                          *)
(***************************************************************************)
MergeOne(acc, result) ==
    IF acc.raised THEN acc
    ELSE IF InRaises(result) THEN [acc EXCEPT !.raised = TRUE]
    ELSE LET d == IF In(result, "data") /\ Truthy(result.f["data"])
                  THEN DictUpdate(acc.data, result.f["data"])
                  ELSE [raised |-> FALSE, val |-> acc.data]
         IN  IF d.raised THEN [acc EXCEPT !.raised = TRUE]
             ELSE LET e == IF In(result, "errors")
                           THEN ListExtend(acc.errors, result.f["errors"])
                           ELSE [raised |-> FALSE, val |-> acc.errors]
                  IN  [raised |-> e.raised, data |-> d.val, errors |-> e.val]

RECURSIVE MergeFold(_, _, _)
MergeFold(acc, results, i) ==
    IF i > Len(results.order) THEN acc
    ELSE MergeFold(MergeOne(acc, results.map[results.order[i]]), results, i + 1)

\* variant: the clean-up leaves an empty data object in place
CleanUpKeepsEmptyData(data, errors) ==
    JObj(("data" :> JObj(data))
         @@ (IF errors = <<>> THEN EmptyMap ELSE ("errors" :> JList(errors))))

\* variant: the clean-up leaves an empty errors list in place
CleanUpKeepsEmptyErrors(data, errors) ==
    JObj(("data" :> (IF data = EmptyMap THEN JNull ELSE JObj(data)))
         @@ ("errors" :> JList(errors)))

\* the clean-up at the end of _merge_results
CleanUp(data, errors) ==
    JObj(("data" :> (IF data = EmptyMap THEN JNull ELSE JObj(data)))
         @@ (IF errors = <<>> THEN EmptyMap ELSE ("errors" :> JList(errors))))

\* _merge_results: [raised, val]
MergeResults(results) ==
    LET acc == MergeFold([raised |-> FALSE, data |-> EmptyMap, errors |-> <<>>], results, 1)
    IN  [raised |-> acc.raised,
         val |-> IF acc.raised THEN JNull ELSE CleanUp(acc.data, acc.errors)]

\* the response of the except branch of execute_federated_query
ErrorResponse(msg) ==
    JObj(("data" :> JNull)
         @@ ("errors" :> JList(<<ErrEntry("Federation error: " \o msg)>>)))

(***************************************************************************)
(* Entity resolver.                                                        *)
(***************************************************************************)
\* "id" in value and len(value) <= 2
IsStubShape(value) == Has(value, "id") /\ Cardinality(DOMAIN value.f) <= 2

\* the type a key's value is walked with: None ("") for a scalar
KeyType(key, nested_value) ==
    IF nested_value.kind \in {"o", "l"} THEN InferType(key) ELSE ""

\* extract_from_value: the references found, in the order of the walk
RECURSIVE ExtractFromValue(_, _)
ExtractFromValue(value, parent_type) ==
    CASE value.kind = "o" ->
           IF IsStubShape(value)
           THEN IF parent_type # "" /\ parent_type \in DOMAIN type_to_service
                THEN <<[typename |-> parent_type, id |-> value.f["id"]]>>
                ELSE <<>>
           ELSE LET ks == SetToSeq(DOMAIN value.f)
                IN  Concat([i \in DOMAIN ks |->
                              ExtractFromValue(value.f[ks[i]], KeyType(ks[i], value.f[ks[i]]))])
      [] value.kind = "l" ->
           Concat([i \in DOMAIN value.items |-> ExtractFromValue(value.items[i], parent_type)])
      [] OTHER -> <<>>

RECURSIVE GroupRefs(_, _, _)
GroupRefs(acc, refs, i) ==
    IF i > Len(refs) THEN acc
    ELSE GroupRefs(DictSet(acc, refs[i].typename,
                           Append(IF refs[i].typename \in DOMAIN acc.map
                                  THEN acc.map[refs[i].typename] ELSE <<>>,
                                  refs[i])),
                   refs, i + 1)

\* _extract_entity_references: [raised, val], val the dict type -> refs
ExtractEntityReferences(results) ==
    IF \E s \in DOMAIN results.map : InRaises(results.map[s])
    THEN [raised |-> TRUE, val |-> EmptyDict]
    ELSE [raised |-> FALSE,
          val |-> GroupRefs(EmptyDict,
                    Concat([i \in DOMAIN results.order |->
                              LET result == results.map[results.order[i]]
                              IN  IF In(result, "data") /\ Truthy(result.f["data"])
                                  THEN ExtractFromValue(result.f["data"], "")
                                  ELSE <<>>]),
                    1)]

\* visit_selections of _extract_requested_fields_for_type
RECURSIVE VisitSelections(_, _)
VisitSelections(selection_set, type_name) ==
    UNION {
      LET selection == selection_set[i]
      IN  (IF InferType(selection.name) = type_name /\ selection.sel # <<>>
           THEN {selection.sel[j].name : j \in DOMAIN selection.sel} ELSE {})
          \cup (IF selection.sel # <<>>
                THEN VisitSelections(selection.sel, type_name) ELSE {})
      : i \in DOMAIN selection_set }

\* variant: id is not added to the requested fields
ExtractRequestedFieldsNoId(document, type_name) ==
    VisitSelections(document, type_name)

\* _extract_requested_fields_for_type
ExtractRequestedFieldsForType(document, type_name) ==
    VisitSelections(document, type_name) \cup {"id"}

\* what the owner can do with a resolve call
EntityOutcomes == {"ok", "nullItem", "entitiesNull", "dataNull", "http", "exc"}

\* the entity the owner holds for a representation, with the fields asked
EntityOf(s, type_name, ref, fields) ==
    IF ref.id.kind = "s" /\ \E i \in 1..CountOf(type_name) : IdOf(type_name, i) = ref.id.v
    THEN LET i == CHOOSE i \in 1..CountOf(type_name) : IdOf(type_name, i) = ref.id.v
             fs == SetToSeq(fields)
         IN  EvalObject(s, type_name, i, [k \in DOMAIN fs |-> Leaf(fs[k])])
    ELSE JNull

EntityResponseOf(outcome, s, type_name, refs, fields) ==
    CASE outcome = "http" -> [kind |-> "http", body |-> JNull]
      [] outcome = "exc" -> [kind |-> "exc", body |-> JNull]
      [] outcome = "ok" ->
           [kind |-> "200",
            body |-> JObj("data" :> JObj("_entities" :>
                       JList([i \in DOMAIN refs |-> EntityOf(s, type_name, refs[i], fields)])))]
      [] outcome = "nullItem" ->
           [kind |-> "200",
            body |-> JObj("data" :> JObj("_entities" :> JList([i \in DOMAIN refs |-> JNull])))]
      [] outcome = "entitiesNull" ->
           [kind |-> "200", body |-> JObj("data" :> JObj("_entities" :> JNull))]
      [] OTHER ->
           [kind |-> "200",
            body |-> JObj(("data" :> JNull) @@ ("errors" :> JList(<<ErrEntry("failed")>>)))]

\* one iteration of the loop of _fetch_entities, from the response on
FetchEntitiesStep(resolved, type_name, resp) ==
    IF /\ resp.kind = "200"
       /\ In(resp.body, "data")
       /\ In(resp.body.f["data"], "_entities")
    THEN Put(resolved, type_name, resp.body.f["data"].f["_entities"])
    ELSE resolved

\* resolved_entity.get("id")
GetId(entity) == IF Has(entity, "id") THEN entity.f["id"] ELSE JNull

\* variant: any resolved entity of the type matches
IdMatchesAny(resolved_entity, entity_id) == TRUE

\* resolved_entity.get("id") == entity_id
IdMatches(resolved_entity, entity_id) == GetId(resolved_entity) = entity_id

\* the scan of resolved_entities[type_name] for entity_id: [raised, found, val]
RECURSIVE FindResolved(_, _, _)
FindResolved(entities, entity_id, i) ==
    IF i > Len(entities) THEN [raised |-> FALSE, found |-> FALSE, val |-> JNull]
    ELSE IF entities[i].kind # "o" THEN [raised |-> TRUE, found |-> FALSE, val |-> JNull]
    ELSE IF IdMatches(entities[i], entity_id)
         THEN [raised |-> FALSE, found |-> TRUE, val |-> entities[i]]
         ELSE FindResolved(entities, entity_id, i + 1)

\* the stub branch of merge_into_value
SpliceStub(value, type_name, resolved_entities) ==
    IF type_name \in DOMAIN resolved_entities
    THEN LET list == resolved_entities[type_name]
         IN  IF list.kind = "l"
             THEN LET hit == FindResolved(list.items, value.f["id"], 1)
                  IN  [raised |-> hit.raised, val |-> IF hit.found THEN hit.val ELSE value]
             ELSE [raised |-> Truthy(list) \/ list.kind = "null", val |-> value]
    ELSE [raised |-> FALSE, val |-> value]

\* merge_into_value: [raised, val]
RECURSIVE MergeIntoValue(_, _, _)
MergeIntoValue(value, type_name, resolved_entities) ==
    CASE value.kind = "o" ->
           IF IsStubShape(value) /\ type_name # ""
           THEN SpliceStub(value, type_name, resolved_entities)
           ELSE LET sub == [key \in DOMAIN value.f |->
                              MergeIntoValue(value.f[key], KeyType(key, value.f[key]),
                                             resolved_entities)]
                IN  [raised |-> \E key \in DOMAIN sub : sub[key].raised,
                     val |-> JObj([key \in DOMAIN sub |-> sub[key].val])]
      [] value.kind = "l" ->
           LET sub == [i \in DOMAIN value.items |->
                         MergeIntoValue(value.items[i], type_name, resolved_entities)]
           IN  [raised |-> \E i \in DOMAIN sub : sub[i].raised,
                val |-> JList([i \in DOMAIN sub |-> sub[i].val])]
      [] OTHER -> [raised |-> FALSE, val |-> value]

\* _merge_entities: [raised, val]
MergeEntities(results, resolved_entities) ==
    LET sub == [s \in DOMAIN results.map |->
                  LET result == results.map[s]
                  IN  IF InRaises(result) THEN [raised |-> TRUE, val |-> result]
                      ELSE IF In(result, "data") /\ Truthy(result.f["data"])
                      THEN LET m == MergeIntoValue(result.f["data"], "", resolved_entities)
                           IN  [raised |-> m.raised,
                                val |-> JObj(Put(result.f, "data", m.val))]
                      ELSE [raised |-> FALSE, val |-> result]]
    IN  [raised |-> \E s \in DOMAIN sub : sub[s].raised,
         val |-> [order |-> results.order, map |-> [s \in DOMAIN sub |-> sub[s].val]]]

(***************************************************************************)
(* Startup: lifespan calls fetch_subgraph_schemas(services) and serves     *)
(* requests only after it has returned.                                    *)
(***************************************************************************)
\* what a subgraph can do with the schema call: answer 200 with its SDL,
\* answer 200 with a JSON object that has no 'sdl', answer another status,
\* or make the client raise (timeout, transport, body that is not JSON)
FetchOutcomes == {"ok", "noSdl", "http", "exc"}

\* schema_data.get('sdl', '')
SdlReceived(outcome, service_name) ==
    IF outcome = "ok" THEN SdlOf(service_name) ELSE <<>>

StartFetch ==
    /\ loader.pc = "init"
    /\ service_urls' = [s \in Services |-> UrlOf(s)]
    /\ loader' = [pc |-> "fetch", queue |-> ServiceOrder, failed |-> {}]
    /\ UNCHANGED <<schemas, type_to_service, type_extensions,
                   query_field_to_service, field_to_return_type,
                   run_service_calls, run_storage_url, peer, req, net, pure>>

FetchSchema ==
    /\ loader.pc = "fetch"
    /\ loader.queue # <<>>
    /\ \E outcome \in FetchOutcomes :
         LET service_name == Head(loader.queue)
             sdl == SdlReceived(outcome, service_name)
             m == ParseSchemaTypes(CurrentMaps, service_name, sdl)
         IN  /\ IF outcome \in {"ok", "noSdl"}
                THEN /\ schemas' = Put(schemas, service_name, sdl)
                     /\ type_to_service' = m.tts
                     /\ type_extensions' = m.ext
                     /\ query_field_to_service' = m.qfs
                     /\ field_to_return_type' = m.ftr
                ELSE UNCHANGED <<schemas, type_to_service, type_extensions,
                                 query_field_to_service, field_to_return_type>>
             /\ net' = Append(net, [phase |-> "schema", service |-> service_name,
                                    url |-> service_urls[service_name]])
             /\ loader' = [loader EXCEPT
                             !.queue = Tail(loader.queue),
                             !.failed = IF outcome = "ok" THEN loader.failed
                                        ELSE loader.failed \cup {service_name}]
    /\ UNCHANGED <<service_urls, run_service_calls, run_storage_url, peer, req, pure>>

\* the end of fetch_subgraph_schemas: the client is closed, the function
\* returns and lifespan goes on to serve
FetchReturn ==
    /\ loader.pc = "fetch"
    /\ loader.queue = <<>>
    /\ loader' = [pc |-> "serving", queue |-> <<>>, failed |-> {}]
    /\ UNCHANGED <<maps, run_storage_url, peer, run_service_calls, req, net, pure>>

(***************************************************************************)
(* One client request: POST /graphql -> execute_federated_query.  The      *)
(* steps are cut where the coroutine awaits: each subgraph call, each      *)
(* resolve call, and the exit of each phase's HTTP client.                 *)
(***************************************************************************)
RunIds == {"run-1"}
\* RUN_STORAGE_URL as main.py configures it
RunStorageUrl == "http://localhost:8082"

ReqIdle ==
    [pc |-> "idle", query |-> [syntax_ok |-> FALSE, sels |-> <<>>], run_id |-> "",
     document |-> <<>>, transformed |-> FALSE, services_to_query |-> <<>>,
     targets |-> <<>>,
     results |-> EmptyDict, refs |-> EmptyDict, reftypes |-> <<>>,
     resolved |-> EmptyMap, response |-> JNull, task |-> "none"]

\* list(services): the set in an order the interpreter picks
Orders(S) == {seq \in [1..Cardinality(S) -> S] : Range(seq) = S}

\* variant: only the subgraphs whose schema was stored
ServiceUrlKeysWithSchema == SelectSeq(ServiceOrder, LAMBDA s : s \in DOMAIN schemas)

\* list(self.service_urls.keys())
ServiceUrlKeys == SelectSeq(ServiceOrder, LAMBDA s : s \in DOMAIN service_urls)

\* from "Merge results" to the return of execute_federated_query, and the
\* except branch if the merge raises
Finished(r, results) ==
    LET m == MergeResults(results)
    IN  IF m.raised
        THEN [r EXCEPT !.pc = "done", !.results = results,
                       !.response = ErrorResponse("merge"), !.task = "none"]
        ELSE [r EXCEPT !.pc = "done", !.results = results, !.response = m.val,
                       !.task = IF run_storage_url # "" /\ r.run_id # ""
                                THEN "pending" ELSE "none"]

\* execute_federated_query up to the first subgraph call
ReceiveFrom(queries) ==
    /\ loader.pc = "serving"
    /\ req.pc = "idle"
    /\ \E query \in queries, run_id \in RunIds :
         LET p == Parse(query)
             services == DetermineServicesForQuery(ExtractQueriedFields(p.document))
         IN  IF p.raised
             THEN req' = [ReqIdle EXCEPT !.pc = "done", !.query = query,
                                         !.run_id = run_id,
                                         !.response = ErrorResponse("syntax")]
             ELSE \E order \in Orders(services) :
                    req' = [ReqIdle EXCEPT
                              !.pc = "exec", !.query = query, !.run_id = run_id,
                              !.document = p.document,
                              !.services_to_query =
                                 IF order = <<>> THEN ServiceUrlKeys ELSE order,
                              !.targets = IF order = <<>> THEN ServiceUrlKeys ELSE order,
                              !.transformed = CheckNeedsEntityResolution(p.document)]
    /\ UNCHANGED <<maps, run_storage_url, peer, run_service_calls, loader, net, pure>>

Receive == ReceiveFrom(Queries)

\* one iteration of the execution loop
ExecCall ==
    /\ req.pc = "exec"
    /\ req.targets # <<>>
    /\ LET service_name == Head(req.targets)
       IN  IF service_name \notin DOMAIN service_urls
           THEN /\ req' = [req EXCEPT !.targets = Tail(req.targets)]
                /\ UNCHANGED <<run_service_calls, net>>
           ELSE \E outcome \in ExecOutcomes :
                  LET sent == IF req.transformed
                              THEN TransformQueryForService(req.document, service_name)
                              ELSE req.document
                      resp == ResponseOf(outcome, service_name, sent)
                      st0 == [results |-> req.results, calls |-> run_service_calls]
                      st == IF req.transformed
                            THEN ExecuteTransformed(st0, req.run_id, service_name, resp)
                            ELSE ExecuteOnService(st0, req.run_id, service_name, resp)
                  IN  /\ req' = [req EXCEPT !.results = st.results,
                                            !.targets = RemainingAfter(req.targets, resp)]
                      /\ run_service_calls' = st.calls
                      /\ net' = Append(net, [phase |-> "exec", service |-> service_name,
                                             url |-> service_urls[service_name],
                                             query |-> sent, resp |-> resp])
    /\ UNCHANGED <<maps, run_storage_url, peer, loader, pure>>

\* variant: the function goes on while calls are still to be made
LoopOverEarly(queue) == TRUE

\* the for loop has gone through all its items, each call awaited in turn
LoopOver(queue) == queue = <<>>

\* after the loop: the second check, the stub extraction, and the merge if
\* there is nothing to resolve
ExecJoin ==
    /\ req.pc = "exec"
    /\ LoopOver(req.targets)
    /\ LET ex == ExtractEntityReferences(req.results)
       IN  IF /\ CheckNeedsEntityResolution(req.document)
              /\ ~ex.raised
              /\ ex.val.order # <<>>
           THEN req' = [req EXCEPT !.pc = "resolve", !.refs = ex.val,
                                   !.reftypes = ex.val.order]
           ELSE req' = Finished(req, req.results)
    /\ UNCHANGED <<maps, run_storage_url, peer, run_service_calls, loader, net, pure>>

\* one iteration of the loop of _fetch_entities
ResolveCall ==
    /\ req.pc = "resolve"
    /\ req.reftypes # <<>>
    /\ LET type_name == Head(req.reftypes)
       IN  IF \/ type_name \notin DOMAIN type_to_service
              \/ type_to_service[type_name] \notin DOMAIN service_urls
           THEN /\ req' = [req EXCEPT !.reftypes = Tail(req.reftypes)]
                /\ UNCHANGED net
           ELSE \E outcome \in EntityOutcomes :
                  LET service_name == type_to_service[type_name]
                      fields == ExtractRequestedFieldsForType(req.document, type_name)
                      refs == req.refs.map[type_name]
                      resp == EntityResponseOf(outcome, service_name, type_name, refs, fields)
                  IN  /\ req' = [req EXCEPT
                                   !.resolved = FetchEntitiesStep(req.resolved, type_name, resp),
                                   !.reftypes = Tail(req.reftypes)]
                      /\ net' = Append(net, [phase |-> "resolve", service |-> service_name,
                                             url |-> service_urls[service_name],
                                             type_name |-> type_name, fields |-> fields,
                                             representations |-> refs, resp |-> resp])
    /\ UNCHANGED <<maps, run_storage_url, peer, run_service_calls, loader, pure>>

\* after the loop of _fetch_entities: splice, merge, return
ResolveJoin ==
    /\ req.pc = "resolve"
    /\ LoopOver(req.reftypes)
    /\ LET me == MergeEntities(req.results, req.resolved)
       IN  req' = Finished(req, IF me.raised THEN req.results ELSE me.val)
    /\ UNCHANGED <<maps, run_storage_url, peer, run_service_calls, loader, net, pure>>

\* _record_run, building run_data: the error summary calls e.get("message")
\* on every error entry and joins the first three messages
RunDataRaises(final_result) ==
    /\ Has(final_result, "errors")
    /\ LET errs == final_result.f["errors"].items
       IN  \/ \E i \in DOMAIN errs : ~IsDict(errs[i])
           \/ \E i \in DOMAIN errs :
                 /\ i <= 3
                 /\ Has(errs[i], "message")
                 /\ errs[i].f["message"].kind # "s"

\* what the run-storage service can do with the send
TraceOutcomes == {"ok", "http", "exc"}

\* variant: a failed send is attempted again
AfterSendRetry(outcome) == IF outcome = "ok" THEN "sent" ELSE "pending"

\* _record_run after the send: 200, another status and an exception all end
\* the task
AfterSend(outcome) == "sent"

\* self.run_service_calls.get(run_id, [])
ServiceCallsOf(calls, run_id) ==
    IF run_id \in DOMAIN calls THEN calls[run_id] ELSE <<>>

\* self.run_service_calls without the entry of run_id
WithoutRun(calls, run_id) == [k \in (DOMAIN calls) \ {run_id} |-> calls[k]]

\* the detached task _record_run: the send, then the clean-up of the buffer
RecordRun ==
    /\ req.pc = "done"
    /\ req.task = "pending"
    /\ IF RunDataRaises(req.response)
       THEN /\ net' = net
            /\ req' = [req EXCEPT !.task = "sent"]
       ELSE \E outcome \in TraceOutcomes :
              /\ net' = Append(net, [phase |-> "trace", service |-> "run-storage",
                                     url |-> run_storage_url, query |-> req.query,
                                     service_calls |->
                                        ServiceCallsOf(run_service_calls, req.run_id)])
              /\ req' = [req EXCEPT !.task = AfterSend(outcome)]
    /\ run_service_calls' = WithoutRun(run_service_calls, req.run_id)
    /\ UNCHANGED <<maps, run_storage_url, peer, loader, pure>>

Init ==
    /\ schemas = EmptyMap
    /\ service_urls = EmptyMap
    /\ type_to_service = EmptyMap
    /\ type_extensions = EmptyMap
    /\ query_field_to_service = EmptyMap
    /\ field_to_return_type = EmptyMap
    /\ run_service_calls = EmptyMap
    /\ run_storage_url = RunStorageUrl
    /\ loader = [pc |-> "init", queue |-> <<>>, failed |-> {}]
    /\ req = ReqIdle
    /\ peer = ReqIdle
    /\ net = <<>>
    /\ pure = [fn |-> "none"]

Next ==
    \/ StartFetch
    \/ FetchSchema
    \/ FetchReturn
    \/ Receive
    \/ ExecCall
    \/ ExecJoin
    \/ ResolveCall
    \/ ResolveJoin
    \/ RecordRun

Spec == Init /\ [][Next]_vars


(***************************************************************************)
(* The pure functions on their own: the inputs are drawn in the initial    *)
(* state and one action applies the function.  The ownership maps a        *)
(* function reads are those fetch_subgraph_schemas leaves when the         *)
(* subgraphs of `loaded` answered and the others did not.                  *)
(***************************************************************************)
EmptyMaps == [tts |-> EmptyMap, ext |-> EmptyMap, qfs |-> EmptyMap, ftr |-> EmptyMap]

\* the loop of fetch_subgraph_schemas over the services that answered
RECURSIVE LoadAll(_, _, _)
LoadAll(m, loaded, i) ==
    IF i > Len(ServiceOrder) THEN m
    ELSE LoadAll(IF ServiceOrder[i] \in loaded
                 THEN ParseSchemaTypes(m, ServiceOrder[i], SdlOf(ServiceOrder[i]))
                 ELSE m,
                 loaded, i + 1)

\* the composer after startup, no request received yet
Loaded(loaded) ==
    /\ schemas = [s \in loaded |-> SdlOf(s)]
    /\ service_urls = [s \in Services |-> UrlOf(s)]
    /\ type_to_service = LoadAll(EmptyMaps, loaded, 1).tts
    /\ type_extensions = LoadAll(EmptyMaps, loaded, 1).ext
    /\ query_field_to_service = LoadAll(EmptyMaps, loaded, 1).qfs
    /\ field_to_return_type = LoadAll(EmptyMaps, loaded, 1).ftr
    /\ run_service_calls = EmptyMap
    /\ loader = [pc |-> "serving", queue |-> <<>>, failed |-> {}]
    /\ req = ReqIdle
    /\ peer = ReqIdle
    /\ net = [i \in DOMAIN ServiceOrder |->
                [phase |-> "schema", service |-> ServiceOrder[i],
                 url |-> UrlOf(ServiceOrder[i])]]

\* ---- _merge_results ----
MaxKeys == 2       \* top-level data keys the results can contribute

MergeKeys == {"k" \o ToString(i) : i \in 1..MaxKeys}

\* the results one subgraph can leave in the result map
MergeCandidates(s) ==
    {JObj(d @@ e) :
        d \in {EmptyMap, "data" :> JNull}
                \cup {"data" :> JObj([k \in K |-> JStr(s)]) : K \in SUBSET MergeKeys},
        e \in {EmptyMap, "errors" :> JList(<<ErrEntry(s)>>)}}
      \cup {ErrorResult(s, "500"), JObj("data" :> JList(<<JStr("x")>>))}

\* the result maps over the subgraphs of S
RECURSIVE ResultMaps(_)
ResultMaps(S) ==
    IF S = {} THEN {EmptyMap}
    ELSE LET s == CHOOSE s \in S : TRUE
         IN  {(s :> c) @@ m : c \in MergeCandidates(s), m \in ResultMaps(S \ {s})}

\* the result dicts over S, in each insertion order
MergeInputsOver(S) ==
    {[order |-> o, map |-> m] : o \in Orders(S), m \in ResultMaps(S)}

MergeInit ==
    /\ Loaded(Services)
    /\ run_storage_url = RunStorageUrl
    /\ \E S \in SUBSET Services \ {{}} :
          pure \in {[fn |-> "merge", results |-> r] : r \in MergeInputsOver(S)}

ApplyMerge ==
    /\ pure.fn = "merge"
    /\ pure' = [fn |-> "merged", results |-> pure.results,
                out |-> MergeResults(pure.results)]
    /\ UNCHANGED <<maps, run_storage_url, peer, run_service_calls, loader, req, net>>

MergeNext == ApplyMerge

SpecMerge == MergeInit /\ [][MergeNext]_vars

\* ---- _transform_query_for_service ----
TransformDocuments ==
    Documents
      \cup {<<Node("users", <<Leaf("name"),
                              Node("posts", <<Leaf("title"),
                                              Node("author", <<Leaf("name")>>)>>)>>)>>,
            <<Node("things", <<Node("posts", <<Node("author", <<Leaf("id"), Leaf("name")>>)>>),
                               Node("users", <<Leaf("name")>>)>>)>>,
            <<Node("posts", <<Aliased("author", "writer", <<Leaf("name")>>),
                              Aliased("title", "headline", <<>>)>>)>>,
            <<WithArgs("posts", "(first: 1)",
                       <<Leaf("title"),
                         WithArgs("author", "(full: true)", <<Leaf("name")>>)>>)>>,
            <<Node("posts", <<Leaf("title"),
                              InlineFragment("Post", <<Node("author", <<Leaf("name")>>)>>)>>)>>,
            <<Node("users", <<Leaf("name")>>),
              InlineFragment("Query", <<Node("posts", <<Leaf("title")>>)>>)>>}

TransformInit ==
    /\ \E loaded \in SUBSET Services : Loaded(loaded)
    /\ run_storage_url = RunStorageUrl
    /\ pure \in {[fn |-> "transform", document |-> d, service_name |-> s] :
                   d \in TransformDocuments, s \in Services}

ApplyTransform ==
    /\ pure.fn = "transform"
    /\ LET once == TransformQueryForService(pure.document, pure.service_name)
       IN  pure' = [fn |-> "transformed", document |-> pure.document,
                    service_name |-> pure.service_name, once |-> once,
                    twice |-> TransformQueryForService(once, pure.service_name)]
    /\ UNCHANGED <<maps, run_storage_url, peer, run_service_calls, loader, req, net>>

TransformNext == ApplyTransform

SpecTransform == TransformInit /\ [][TransformNext]_vars

\* ---- _merge_entities ----
MaxItems == 1      \* posts in a subgraph's data
MaxEntities == 2   \* entities in the list resolved for a type

\* sequences over S of length lo..hi
SeqsOf(S, lo, hi) == UNION {[1..n -> S] : n \in lo..hi}

StubIds == {JStr("u1"), JStr("u2"), JNull}

\* what a post's author can be in a subgraph's data
AuthorValues ==
    {JObj("id" :> x) : x \in StubIds}
      \cup {JObj(("id" :> JStr("u1")) @@ ("__typename" :> JStr("User"))),
            JObj(("id" :> JStr("u1")) @@ ("name" :> JStr("n0")) @@ ("title" :> JStr("t0")))}

PostValues ==
    {JObj(("title" :> JStr("t1")) @@ ("author" :> a)) : a \in AuthorValues}
      \cup {JObj(("id" :> JStr("p1")) @@ ("author" :> a)) : a \in AuthorValues}

\* the entities an owner can return for User
UserEntities ==
    {JObj(("id" :> JStr("u1")) @@ ("name" :> JStr("n1"))),
     JObj(("id" :> JStr("u2")) @@ ("name" :> JStr("n2"))),
     JObj(("id" :> JStr("u1")) @@ ("name" :> JStr("n3"))),
     JObj("name" :> JStr("n4")),
     JNull}

\* the resolved-entity dicts with at most n entities of a type
ResolvedInputs(n) ==
    {u @@ q :
       u \in {EmptyMap, "User" :> JNull}
               \cup {"User" :> JList(l) : l \in SeqsOf(UserEntities, 0, n)},
       q \in {EmptyMap,
              "Post" :> JList(<<JObj(("id" :> JStr("p1")) @@ ("title" :> JStr("t9")))>>)}}

\* the result dicts with at most n posts in the data of posts
SpliceResults(n) ==
    {[order |-> <<"posts", "users">>,
      map |-> ("posts" :> JObj("data" :> JObj("posts" :> JList(l))))
                @@ ("users" :> u)] :
       l \in SeqsOf(PostValues, 1, n),
       u \in {ErrorResult("users", "500"),
              JObj("data" :> JObj("users" :> JList(<<JObj("id" :> JStr("u2"))>>)))}}

SpliceInit ==
    /\ \E loaded \in SUBSET Services : Loaded(loaded)
    /\ run_storage_url = RunStorageUrl
    /\ pure \in {[fn |-> "splice", results |-> r, resolved_entities |-> e] :
                   r \in SpliceResults(MaxItems), e \in ResolvedInputs(MaxEntities)}

\* _merge_entities as _resolve_entities calls it: the original results if
\* it raises
ApplySplice ==
    /\ pure.fn = "splice"
    /\ LET me == MergeEntities(pure.results, pure.resolved_entities)
       IN  pure' = [fn |-> "spliced", results |-> pure.results,
                    resolved_entities |-> pure.resolved_entities,
                    raised |-> me.raised,
                    out |-> IF me.raised THEN pure.results ELSE me.val]
    /\ UNCHANGED <<maps, run_storage_url, peer, run_service_calls, loader, req, net>>

SpliceNext == ApplySplice

SpecSplice == SpliceInit /\ [][SpliceNext]_vars


(***************************************************************************)
(* Properties.                                                             *)
(***************************************************************************)
\* the calls of the execution phase, as positions of net
ExecCalls == {i \in DOMAIN net : net[i].phase = "exec"}
ResolveCalls == {i \in DOMAIN net : net[i].phase = "resolve"}

\* a 200 body of the shape the wire contract gives: an object whose data is
\* an object or null and whose errors, if any, are a list of objects
WellFormed(body) ==
    /\ IsDict(body)
    /\ In(body, "data") => body.f["data"].kind \in {"null", "o"}
    /\ In(body, "errors") =>
         /\ body.f["errors"].kind = "l"
         /\ \A i \in DOMAIN body.f["errors"].items : body.f["errors"].items[i].kind = "o"

\* the execution phase is over and nothing has touched its results yet
ExecutionOver == req.pc = "exec" /\ req.targets = <<>>

\* C1: when the execution phase is over, every target subgraph with a URL
\* was called once and has an entry in the result map: the error payload of
\* that subgraph if its call failed (non-200, timeout, transport
\* exception), its own response if it answered with a well-formed body -
\* whatever the other calls did.
C1_FailureIsolated ==
    ExecutionOver =>
      \A s \in Range(req.services_to_query) \cap DOMAIN service_urls :
         /\ Cardinality({i \in ExecCalls : net[i].service = s}) = 1
         /\ s \in DOMAIN req.results.map
         /\ \A i \in ExecCalls :
              net[i].service = s =>
                /\ net[i].resp.kind = "http" => req.results.map[s] = ErrorResult(s, "500")
                /\ net[i].resp.kind = "exc" => req.results.map[s] = ErrorResult(s, "exc")
                /\ (net[i].resp.kind = "200" /\ WellFormed(net[i].resp.body)) =>
                      req.results.map[s] = net[i].resp.body

\* a failed call came first and a later call's response was kept
C1_Witness ==
    /\ ExecutionOver
    /\ Len(req.services_to_query) >= 2
    /\ \E i, j \in ExecCalls :
         /\ i < j
         /\ net[i].resp.kind \in {"http", "exc"}
         /\ net[j].resp.kind = "200"
         /\ In(net[j].resp.body, "data")
         /\ Truthy(net[j].resp.body.f["data"])
         /\ req.results.map[net[j].service] = net[j].resp.body
         /\ req.results.map[net[i].service] # net[j].resp.body


\* the request was routed to exactly one subgraph by ownership
SingleOwner ==
    /\ req.query.syntax_ok
    /\ Cardinality(DetermineServicesForQuery(ExtractQueriedFields(req.document))) = 1

DataOf(body) == body.f["data"]

\* C2 (as stated): for a query whose root fields are all owned by one
\* subgraph, whatever data section that subgraph's response carries (an
\* empty object included), the composed response's data equals it.
C2_RawDataUnchanged ==
    (req.pc = "done" /\ SingleOwner) =>
      \A i \in ExecCalls :
         (net[i].resp.kind = "200" /\ In(net[i].resp.body, "data")) =>
            /\ In(req.response, "data")
            /\ DataOf(req.response) = DataOf(net[i].resp.body)

\* C2 (amended): for a query routed to one subgraph and needing no entity
\* resolution, and a well-formed response of that subgraph, the composed
\* data equals the raw data section if that is a non-empty object, and is
\* null if the data section is absent, null or an empty object.
C2_RawDataUnchangedOrNull ==
    (req.pc = "done" /\ SingleOwner /\ ~req.transformed) =>
      \A i \in ExecCalls :
         (net[i].resp.kind = "200" /\ WellFormed(net[i].resp.body)) =>
            /\ In(req.response, "data")
            /\ DataOf(req.response) =
                 IF In(net[i].resp.body, "data") /\ Truthy(DataOf(net[i].resp.body))
                 THEN DataOf(net[i].resp.body)
                 ELSE JNull

\* one subgraph answered with a non-empty data object, returned as it is
C2_Witness ==
    /\ req.pc = "done"
    /\ SingleOwner
    /\ ~req.transformed
    /\ \E i \in ExecCalls :
         /\ net[i].resp.kind = "200"
         /\ WellFormed(net[i].resp.body)
         /\ In(net[i].resp.body, "data")
         /\ Truthy(DataOf(net[i].resp.body))
         /\ DataOf(req.response) = DataOf(net[i].resp.body)

\* the top-level data keys a result contributes
ContributedKeys(result) ==
    IF In(result, "data") /\ IsDict(DataOf(result)) THEN DOMAIN DataOf(result).f ELSE {}

\* well-formed results whose top-level data keys do not overlap
DisjointContributions(results) ==
    /\ \A s \in DOMAIN results.map : WellFormed(results.map[s])
    /\ \A s, u \in DOMAIN results.map :
          s # u => ContributedKeys(results.map[s]) \cap ContributedKeys(results.map[u]) = {}

AllContributedKeys(results) ==
    UNION {ContributedKeys(results.map[s]) : s \in DOMAIN results.map}

\* C3: when the results contribute non-overlapping top-level data keys,
\* _merge_results does not raise and its data is the union of those keys,
\* each with the value its subgraph gave (null if there is no key at all),
\* in whatever order the results are iterated.
C3_MergeIsUnion ==
    (pure.fn = "merged" /\ DisjointContributions(pure.results)) =>
      /\ ~pure.out.raised
      /\ DataOf(pure.out.val) =
           IF AllContributedKeys(pure.results) = {} THEN JNull
           ELSE JObj([k \in AllContributedKeys(pure.results) |->
                        LET s == CHOOSE s \in DOMAIN pure.results.map :
                                    k \in ContributedKeys(pure.results.map[s])
                        IN  DataOf(pure.results.map[s]).f[k]])

\* two subgraphs contributed different keys and were iterated in the
\* reverse of the order they were registered in
C3_Witness ==
    /\ pure.fn = "merged"
    /\ DisjointContributions(pure.results)
    /\ \E i, j \in DOMAIN pure.results.order :
         /\ i < j
         /\ pure.results.order[i] = "users"
         /\ pure.results.order[j] = "posts"
         /\ ContributedKeys(pure.results.map["users"]) # {}
         /\ ContributedKeys(pure.results.map["posts"]) # {}
    /\ IsDict(DataOf(pure.out.val))
    /\ DOMAIN DataOf(pure.out.val).f = MergeKeys

\* the resolved entities of a type that carry the identifier of a stub
Matching(stub, type_name, resolved_entities) ==
    IF type_name \in DOMAIN resolved_entities /\ resolved_entities[type_name].kind = "l"
    THEN {e \in Range(resolved_entities[type_name].items) :
            e.kind = "o" /\ GetId(e) = stub.f["id"]}
    ELSE {}

\* w is v with stubs left alone or replaced by a resolved entity of the
\* stub's type and identifier, and left alone where there is none
RECURSIVE SplicedFrom(_, _, _, _)
SplicedFrom(v, w, type_name, resolved_entities) ==
    CASE v.kind = "o" ->
           IF IsStubShape(v) /\ type_name # ""
           THEN /\ w = v \/ w \in Matching(v, type_name, resolved_entities)
                /\ Matching(v, type_name, resolved_entities) = {} => w = v
           ELSE /\ w.kind = "o"
                /\ DOMAIN w.f = DOMAIN v.f
                /\ \A key \in DOMAIN v.f :
                      SplicedFrom(v.f[key], w.f[key], KeyType(key, v.f[key]),
                                  resolved_entities)
      [] v.kind = "l" ->
           /\ w.kind = "l"
           /\ Len(w.items) = Len(v.items)
           /\ \A i \in DOMAIN v.items :
                 SplicedFrom(v.items[i], w.items[i], type_name, resolved_entities)
      [] OTHER -> w = v

\* C4: in the results _merge_entities gives back, a stub with id X has
\* been replaced only by an entity resolved for the type inferred for the
\* stub's enclosing field whose id (read as the code reads it, an absent
\* id as null) equals X; a stub with no such entity is unchanged, and so
\* is everything that is not a stub.
C4_SpliceIdentifierCorrect ==
    pure.fn = "spliced" =>
      /\ DOMAIN pure.out.map = DOMAIN pure.results.map
      /\ \A s \in DOMAIN pure.results.map :
            LET result == pure.results.map[s]
            IN  IF In(result, "data") /\ Truthy(DataOf(result))
                THEN /\ In(pure.out.map[s], "data")
                     /\ SplicedFrom(DataOf(result), DataOf(pure.out.map[s]), "",
                                    pure.resolved_entities)
                ELSE pure.out.map[s] = result

\* a stub u1 was replaced by a resolved User u1 while the resolved list
\* also held a User with another id
C4_Witness ==
    /\ pure.fn = "spliced"
    /\ ~pure.raised
    /\ "User" \in DOMAIN pure.resolved_entities
    /\ pure.resolved_entities["User"].kind = "l"
    /\ \E e \in Range(pure.resolved_entities["User"].items) :
          e.kind = "o" /\ GetId(e) = JStr("u2")
    /\ \E i \in DOMAIN DataOf(pure.results.map["posts"]).f["posts"].items :
          LET before == DataOf(pure.results.map["posts"]).f["posts"].items[i]
              after == DataOf(pure.out.map["posts"]).f["posts"].items[i]
          IN  /\ In(before, "title")
              /\ before.f["author"] = JObj("id" :> JStr("u1"))
              /\ after.f["author"] # before.f["author"]
              /\ GetId(after.f["author"]) = JStr("u1")

\* C5: transforming an already transformed tree for the same subgraph
\* gives the same tree: transform(transform(q, s), s) = transform(q, s).
C5_TransformIdempotent ==
    pure.fn = "transformed" => pure.twice = pure.once

\* a nested entity of another subgraph was stubbed below a field that was
\* kept
C5_Witness ==
    /\ pure.fn = "transformed"
    /\ pure.once # pure.document
    /\ \E i \in DOMAIN pure.once :
         \E j \in DOMAIN pure.once[i].sel :
            /\ pure.once[i].sel # StubSelection
            /\ pure.document[i].sel[j].sel # <<>>
            /\ pure.document[i].sel[j].sel # StubSelection
            /\ pure.once[i].sel[j].sel = StubSelection

\* a call answered 200 with data and no errors
AnsweredOk(resp) ==
    /\ resp.kind = "200"
    /\ WellFormed(resp.body)
    /\ In(resp.body, "data")
    /\ Truthy(DataOf(resp.body))
    /\ ~In(resp.body, "errors")

\* a resolve call answered 200 with a list of entity objects
ResolvedOk(resp) ==
    /\ resp.kind = "200"
    /\ In(resp.body, "data")
    /\ In(DataOf(resp.body), "_entities")
    /\ DataOf(resp.body).f["_entities"].kind = "l"
    /\ \A k \in DOMAIN DataOf(resp.body).f["_entities"].items :
          DataOf(resp.body).f["_entities"].items[k].kind = "o"

\* the entities a resolve call returned
EntitiesOf(resp) == Range(DataOf(resp.body).f["_entities"].items)

\* a field nested in root field r that selects more than id on an entity
\* owned by another subgraph than the one that executes r
CrossServiceField(r, n) ==
    /\ r.name \in DOMAIN query_field_to_service
    /\ n.sel # <<>>
    /\ \E j \in DOMAIN n.sel : n.sel[j].name \notin {"id", "__typename"}
    /\ InferType(n.name) \in DOMAIN type_to_service
    /\ type_to_service[InferType(n.name)] # query_field_to_service[r.name]

\* C6: when a query selects non-identifier fields on a nested entity owned
\* by another subgraph, and the executing subgraph answers every call
\* successfully and the owner answers every resolve call it receives
\* successfully, the executing subgraph was asked only for the entity's id
\* and the composed data holds, for every such entity, the full entity the
\* owner returned - whatever siblings the parent selects.
C6_CrossServiceResolved ==
    (/\ req.pc = "done"
     /\ req.query.syntax_ok
     /\ \A i \in ExecCalls : AnsweredOk(net[i].resp)) =>
      \A a \in DOMAIN req.document :
         \A b \in DOMAIN req.document[a].sel :
            LET r == req.document[a]
                n == r.sel[b]
                exec == query_field_to_service[r.name]
                owner == type_to_service[InferType(n.name)]
            IN  (/\ CrossServiceField(r, n)
                 /\ \A j \in ResolveCalls :
                       net[j].service = owner => ResolvedOk(net[j].resp)) =>
                  /\ \A i \in ExecCalls :
                        net[i].service = exec => net[i].query[a].sel[b].sel = StubSelection
                  /\ In(req.response, "data")
                  /\ In(DataOf(req.response), ResponseKey(r))
                  /\ LET items == DataOf(req.response).f[ResponseKey(r)].items
                     IN  \A k \in DOMAIN items :
                            /\ In(items[k], ResponseKey(n))
                            /\ \E j \in ResolveCalls :
                                  /\ net[j].service = owner
                                  /\ items[k].f[ResponseKey(n)] \in EntitiesOf(net[j].resp)

\* C7: every response has a data field that is null or an object with at
\* least one key, no field besides data and errors, and an errors field
\* only as a non-empty list.
C7_ResponseShape ==
    req.pc = "done" =>
      /\ IsDict(req.response)
      /\ DOMAIN req.response.f \subseteq {"data", "errors"}
      /\ In(req.response, "data")
      /\ \/ DataOf(req.response) = JNull
         \/ /\ IsDict(DataOf(req.response))
            /\ DOMAIN DataOf(req.response).f # {}
      /\ In(req.response, "errors") =>
            /\ IsList(req.response.f["errors"])
            /\ Len(req.response.f["errors"].items) >= 1

\* three subgraphs answered one root field each: three keys and no errors
C7_Witness ==
    /\ req.pc = "done"
    /\ Cardinality(ExecCalls) = 3
    /\ IsDict(DataOf(req.response))
    /\ Cardinality(DOMAIN DataOf(req.response).f) = 3
    /\ ~In(req.response, "errors")

\* C8: a malformed client query ends the request in the step that receives
\* it, with {data: null, errors: [one message]}, no trace task, no call
\* sent, and the ownership maps and the call buffer as they were; no call
\* of any phase is ever logged for it.
C8_ParseErrorContained ==
    /\ [][(req.pc = "idle" /\ req'.pc # "idle" /\ ~req'.query.syntax_ok) =>
            /\ req'.pc = "done"
            /\ req'.task = "none"
            /\ DOMAIN req'.response.f = {"data", "errors"}
            /\ DataOf(req'.response) = JNull
            /\ Len(req'.response.f["errors"].items) = 1
            /\ net' = net
            /\ UNCHANGED <<maps, run_storage_url, peer, run_service_calls>>]_vars
    /\ []((req.pc # "idle" /\ ~req.query.syntax_ok) =>
            /\ req.pc = "done"
            /\ ExecCalls = {}
            /\ ResolveCalls = {}
            /\ run_service_calls = EmptyMap)

\* a malformed query has been answered
C8_Witness ==
    /\ req.pc = "done"
    /\ ~req.query.syntax_ok
    /\ DataOf(req.response) = JNull

\* C9: whatever one subgraph's call or payload does, the composed response
\* still has the top-level data of every subgraph that answered with a
\* well-formed, non-empty data object.
C9_PartialDataKept ==
    (req.pc = "done" /\ req.query.syntax_ok) =>
      \A i \in ExecCalls :
         (/\ net[i].resp.kind = "200"
          /\ WellFormed(net[i].resp.body)
          /\ In(net[i].resp.body, "data")
          /\ Truthy(DataOf(net[i].resp.body))) =>
            /\ IsDict(DataOf(req.response))
            /\ DOMAIN DataOf(net[i].resp.body).f \subseteq DOMAIN DataOf(req.response).f

\* C10: a failed resolve call leaves an entry in the composed errors list.
C10_ResolveFailureReported ==
    (req.pc = "done" /\ \E j \in ResolveCalls : ~ResolvedOk(net[j].resp)) =>
      /\ In(req.response, "errors")
      /\ Len(req.response.f["errors"].items) >= 1

\* the result map the execution phase leaves when every call was answered
\* with a body: each subgraph's body, in the order of the calls
ExecBodies ==
    LET calls == SelectSeq([i \in DOMAIN net |-> i], LAMBDA i : net[i].phase = "exec")
    IN  [order |-> [k \in DOMAIN calls |-> net[calls[k]].service],
         map |-> [s \in {net[i].service : i \in ExecCalls} |->
                    net[CHOOSE i \in ExecCalls : net[i].service = s].resp.body]]

\* the entity lists of the types whose resolve call succeeded
ResolvedTypes ==
    [type_name \in {net[j].type_name : j \in {k \in ResolveCalls : ResolvedOk(net[k].resp)}} |->
       DataOf(net[CHOOSE j \in ResolveCalls : net[j].type_name = type_name].resp.body).f["_entities"]]

\* C11: whatever the resolve call of one type does (fails, or returns a
\* malformed entity list), the request ends with a composed response in
\* which the stubs of every type whose resolve call succeeded have been
\* replaced: the response is the merge of the execution results spliced
\* with the entity lists of the types that resolved.
C11_ResolutionIsolatedPerType ==
    (/\ req.pc = "done"
     /\ req.query.syntax_ok
     /\ ResolveCalls # {}
     /\ \A i \in ExecCalls : AnsweredOk(net[i].resp)) =>
      req.response = MergeResults(MergeEntities(ExecBodies, ResolvedTypes).val).val

\* routing found no owner for any root field of the request's query
NoOwnerFound ==
    /\ req.pc # "idle"
    /\ req.query.syntax_ok
    /\ DetermineServicesForQuery(ExtractQueriedFields(req.document)) = {}

\* all calls of the execution phase have been made
ExecutionDone == req.pc \in {"resolve", "done"} \/ ExecutionOver

\* C12: when routing finds no owner for any root field, the targets are
\* every subgraph of the service map, each once, whether or not its schema
\* was stored; once the execution phase is over each of them has been
\* called exactly once, a subgraph whose call failed has its own error
\* payload in the result map, and the request ends with a response.
C12_BroadcastFallback ==
    NoOwnerFound =>
      /\ Range(req.services_to_query) = DOMAIN service_urls
      /\ Len(req.services_to_query) = Cardinality(DOMAIN service_urls)
      /\ ExecutionDone =>
           \A s \in DOMAIN service_urls :
              /\ Cardinality({i \in ExecCalls : net[i].service = s}) = 1
              /\ \A i \in ExecCalls :
                    (net[i].service = s /\ net[i].resp.kind \in {"http", "exc"}) =>
                       req.results.map[s] =
                          ErrorResult(s, IF net[i].resp.kind = "http" THEN "500" ELSE "exc")
      /\ req.pc = "done" => IsDict(req.response) /\ In(req.response, "data")

\* a broadcast reached a subgraph whose schema fetch had failed, and a
\* subgraph that did not answer has its error payload
C12_Witness ==
    /\ NoOwnerFound
    /\ req.pc = "done"
    /\ "orders" \notin DOMAIN schemas
    /\ \E i, j \in ExecCalls :
         /\ net[i].service = "orders"
         /\ net[j].resp.kind = "exc"
         /\ req.results.map[net[j].service] = ErrorResult(net[j].service, "exc")

\* the schema calls of startup, as positions of net
SchemaCalls == {i \in DOMAIN net : net[i].phase = "schema"}

\* the loop of fetch_subgraph_schemas is over and the function is about to
\* return
FetchOver == loader.pc = "fetch" /\ loader.queue = <<>>

\* C13: when the loop of fetch_subgraph_schemas is over, every subgraph of
\* the service map was fetched once; a subgraph whose schema call failed
\* (exception, non-200, malformed payload) is in none of the ownership maps
\* nor in the stored schemas, and the maps and the stored schemas are those
\* of the subgraphs that answered.
C13_SchemaFailureTolerated ==
    FetchOver =>
      /\ \A s \in DOMAIN service_urls :
            Cardinality({i \in SchemaCalls : net[i].service = s}) = 1
      /\ DOMAIN schemas = DOMAIN service_urls \ loader.failed
      /\ \A s \in DOMAIN schemas : schemas[s] = SdlOf(s)
      /\ CurrentMaps = LoadAll(EmptyMaps, DOMAIN service_urls \ loader.failed, 1)
      /\ \A s \in loader.failed :
            /\ \A k \in DOMAIN type_to_service : type_to_service[k] # s
            /\ \A k \in DOMAIN type_extensions : s \notin Range(type_extensions[k])
            /\ \A k \in DOMAIN query_field_to_service : query_field_to_service[k] # s

\* C14: the calls of a phase are dispatched concurrently, none waiting for
\* the response of another: as long as a phase runs, a response has been
\* received only if every call of the phase has been issued (so with two
\* or more targets two calls are in flight at once).
C14_ConcurrentDispatch ==
    /\ (req.pc = "exec" /\ ExecCalls # {}) =>
          \A s \in Range(req.services_to_query) \cap DOMAIN service_urls :
             \E i \in ExecCalls : net[i].service = s
    /\ (req.pc = "resolve" /\ ResolveCalls # {}) =>
          \A type_name \in Range(req.refs.order) :
             (/\ type_name \in DOMAIN type_to_service
              /\ type_to_service[type_name] \in DOMAIN service_urls) =>
                \E j \in ResolveCalls : net[j].type_name = type_name

\* the records buffered for the request's run identifier
RunRecords ==
    IF req.run_id \in DOMAIN run_service_calls THEN run_service_calls[req.run_id] ELSE <<>>

\* C15: for a request with a run identifier, as long as its trace has not
\* been sent, the run's buffer holds exactly one record for every call
\* issued in the execution phase - whatever the call's outcome, and whether
\* the query was sent as it is or transformed.
C15_OneRecordPerCall ==
    (req.run_id # "" /\ req.pc \in {"exec", "resolve"}) =>
      /\ Len(RunRecords) = Cardinality(ExecCalls)
      /\ \A i \in ExecCalls :
            Cardinality({k \in DOMAIN RunRecords :
                           RunRecords[k].service_name = net[i].service}) = 1

\* every target of the execution phase that has a URL has been called
AllExecIssued ==
    \A s \in Range(req.services_to_query) \cap DOMAIN service_urls :
       \E i \in ExecCalls : net[i].service = s

\* every type with stubs whose owner is known and has a URL has been asked
AllResolveIssued ==
    \A type_name \in Range(req.refs.order) :
       (/\ type_name \in DOMAIN type_to_service
        /\ type_to_service[type_name] \in DOMAIN service_urls) =>
          \E j \in ResolveCalls : net[j].type_name = type_name

\* C16: execution, resolution and merge are three phases in a row: every
\* resolve call comes after every execution call, none is issued before
\* every execution target has been called and answered, the response is
\* computed only when every execution call and every resolve call has been
\* made, and no call of either phase follows it.
C16_ThreePhasePipeline ==
    /\ [](/\ \A i \in ExecCalls : \A j \in ResolveCalls : i < j
          /\ (req.pc = "resolve" \/ ResolveCalls # {}) => AllExecIssued
          /\ (req.pc = "done" /\ req.query.syntax_ok) =>
                AllExecIssued /\ AllResolveIssued)
    /\ [][req.pc = "done" =>
            /\ {i \in DOMAIN net' : net'[i].phase \in {"exec", "resolve"}}
                 = ExecCalls \cup ResolveCalls
            /\ req'.response = req.response]_vars

\* a request went through two execution calls and then a resolve call
C16_Witness ==
    /\ req.pc = "done"
    /\ Cardinality(ExecCalls) >= 2
    /\ ResolveCalls # {}
    /\ IsDict(DataOf(req.response))

\* the sends to the run-storage service so far
TraceSends == {i \in DOMAIN net : net[i].phase = "trace"}

\* C17: the trace is fire-and-forget: the response is returned before any
\* send to the trace sink, no step of the trace task changes the response
\* whatever the sink answers, and a request sends at most once.
C17_TraceFireAndForget ==
    [][/\ req.pc = "done" => (req'.pc = "done" /\ req'.response = req.response)
       /\ Len(net') > Len(net) /\ net'[Len(net')].phase = "trace" =>
            (req.pc = "done" /\ req.task = "pending" /\ TraceSends = {}
             /\ req'.task = "sent")]_vars

C17_Witness ==
    /\ req.pc = "done"
    /\ req.task = "sent"
    /\ Cardinality(TraceSends) = 1
    /\ Has(req.response, "data")
    /\ req.response.f["data"] # JNull

(***************************************************************************)
(* The request path alone, from a gateway whose schemas are loaded, with   *)
(* the trace sink configured or not; every step that is ready is           *)
(* eventually taken (the event loop runs each ready coroutine and every    *)
(* HTTP call has a timeout).                                               *)
(***************************************************************************)
\* FederationComposer(run_storage_url=...): main.py passes RUN_STORAGE_URL,
\* "" stands for a falsy value (the constructor's default None, an empty
\* variable)
RunStorageUrls == {RunStorageUrl, ""}

TraceInit ==
    /\ Loaded(Services)
    /\ run_storage_url \in RunStorageUrls
    /\ pure = [fn |-> "none"]

\* the requests of this specification: one answered by its owner as sent,
\* one that crosses services, one that does not parse
TraceQueries ==
    {[syntax_ok |-> TRUE, sels |-> d] :
        d \in {<<Node("posts", <<Leaf("id"), Leaf("title")>>)>>,
               <<Node("users", <<Leaf("name")>>)>>,
               <<Node("posts", <<Leaf("title"), Node("author", <<Leaf("name")>>)>>)>>}}
      \cup {[syntax_ok |-> FALSE, sels |-> <<>>]}

TraceReceive == ReceiveFrom(TraceQueries)

ServeNext ==
    \/ TraceReceive
    \/ ExecCall
    \/ ExecJoin
    \/ ResolveCall
    \/ ResolveJoin
    \/ RecordRun

SpecTrace == TraceInit /\ [][ServeNext]_vars /\ WF_vars(ServeNext)

\* the request's run identifier has an entry in the buffer
Buffered == req.run_id # "" /\ req.run_id \in DOMAIN run_service_calls

\* C18: the buffer entry of a request that appended records is eventually
\* removed, whatever the outcome of the send, and also when the request
\* ends in a failure response or no trace sink is configured.
C18_BufferEventuallyRemoved == Buffered ~> ~Buffered

(***************************************************************************)
(* Two requests that overlap and carry the same X-Run-ID.  The event loop  *)
(* runs one coroutine at a time and may switch to the other one wherever   *)
(* the running one awaits, which is where the steps are cut.  Both         *)
(* requests are answered by one owner with the query as sent, so every     *)
(* call is tracked, and a record's service tells whose call it was.        *)
(***************************************************************************)
ReuseQueries ==
    {[syntax_ok |-> TRUE, sels |-> d] :
        d \in {<<Node("posts", <<Leaf("id"), Leaf("title")>>)>>,
               <<Node("users", <<Leaf("name")>>)>>}}

ReuseInit ==
    /\ Loaded(Services)
    /\ run_storage_url = RunStorageUrl
    /\ pure = [fn |-> "none"]

ReuseReceive == ReceiveFrom(ReuseQueries)

\* the event loop suspends the running request and resumes the other one
Switch ==
    /\ req' = peer
    /\ peer' = req
    /\ UNCHANGED <<maps, run_storage_url, run_service_calls, loader, net, pure>>

ReuseNext ==
    \/ ReuseReceive
    \/ ExecCall
    \/ ExecJoin
    \/ RecordRun
    \/ Switch

SpecReuse == ReuseInit /\ [][ReuseNext]_vars

\* the services of the records in a trace
RecordedServices(t) == {t.service_calls[i].service_name : i \in DOMAIN t.service_calls}

\* the services called so far for the query of a trace
CalledServices(t) ==
    {net[i].service : i \in {j \in DOMAIN net : /\ net[j].phase = "exec"
                                                /\ net[j].query = t.query.sels}}

\* C19: with the run identifier shared by two overlapping requests, the
\* trace of each request holds the records of that request's own calls:
\* none is missing, none belongs to the other request.
C19_TraceHoldsOwnRecords ==
    \A i \in TraceSends : RecordedServices(net[i]) = CalledServices(net[i])

(***************************************************************************)
(* fetch_subgraph_schemas run again on the same composer, with the same    *)
(* service map and the same answers.  A subgraph's SDL may declare a type  *)
(* of another subgraph with the directive form of an extension,            *)
(*   type User @key(fields: "id") @extends {                               *)
(* which is the line the scan files under type_extensions.                 *)
(***************************************************************************)
MaxLoads == 2      \* runs of fetch_subgraph_schemas on one composer

\* the block "type User @key(fields: "id") @extends { id: ID! }"
ExtendsBlock(type_name) ==
    <<DeclLine("", type_name, TRUE, TRUE), FieldLine("id", FALSE, "ID"), CloseLine>>

\* the SDL texts a subgraph may answer with
SdlTexts(s) ==
    {SdlOf(s)} \cup {SdlOf(s) \o ExtendsBlock(t) : t \in {"User", "Post"} \ {FieldToTypeName(s)}}

\* what a subgraph answers to GET /schema: the outcome and the SDL
AnswersOf(s) ==
    {[outcome |-> "ok", sdl |-> t] : t \in SdlTexts(s)}
      \cup {[outcome |-> o, sdl |-> <<>>] : o \in FetchOutcomes \ {"ok"}}

SchemaAnswers ==
    {[posts |-> x, users |-> y, orders |-> z] :
        x \in AnswersOf("posts"), y \in AnswersOf("users"), z \in AnswersOf("orders")}

\* the loop of fetch_subgraph_schemas: for each service, store the SDL and
\* parse it if the answer is a 200 with a JSON body, else leave the maps
RECURSIVE FetchAll(_, _, _)
FetchAll(st, answers, i) ==
    IF i > Len(ServiceOrder) THEN st
    ELSE LET service_name == ServiceOrder[i]
             a == answers[service_name]
         IN  FetchAll(IF a.outcome \in {"ok", "noSdl"}
                      THEN [sch |-> Put(st.sch, service_name, a.sdl),
                            m |-> ParseSchemaTypes(st.m, service_name, a.sdl)]
                      ELSE st,
                      answers, i + 1)

\* the stored schemas and the four ownership maps
Stored == <<schemas, type_to_service, type_extensions, query_field_to_service,
            field_to_return_type>>

ReloadInit ==
    /\ schemas = EmptyMap
    /\ service_urls = EmptyMap
    /\ type_to_service = EmptyMap
    /\ type_extensions = EmptyMap
    /\ query_field_to_service = EmptyMap
    /\ field_to_return_type = EmptyMap
    /\ run_service_calls = EmptyMap
    /\ run_storage_url = RunStorageUrl
    /\ loader = [pc |-> "init", queue |-> <<>>, failed |-> {}]
    /\ req = ReqIdle
    /\ peer = ReqIdle
    /\ net = <<>>
    /\ pure \in {[fn |-> "load", answers |-> a, runs |-> 0, once |-> <<>>] :
                   a \in SchemaAnswers}

\* one whole run of fetch_subgraph_schemas
FetchSubgraphSchemas ==
    /\ pure.fn = "load"
    /\ pure.runs < MaxLoads
    /\ LET st == FetchAll([sch |-> schemas, m |-> CurrentMaps], pure.answers, 1)
       IN  /\ service_urls' = [s \in Services |-> UrlOf(s)]
           /\ schemas' = st.sch
           /\ type_to_service' = st.m.tts
           /\ type_extensions' = st.m.ext
           /\ query_field_to_service' = st.m.qfs
           /\ field_to_return_type' = st.m.ftr
           /\ pure' = [pure EXCEPT !.runs = pure.runs + 1,
                                   !.once = IF pure.runs = 0
                                            THEN <<st.sch, st.m.tts, st.m.ext,
                                                   st.m.qfs, st.m.ftr>>
                                            ELSE pure.once]
    /\ loader' = [pc |-> "serving", queue |-> <<>>, failed |-> {}]
    /\ UNCHANGED <<run_service_calls, run_storage_url, req, peer, net>>

ReloadNext == FetchSubgraphSchemas

SpecReload == ReloadInit /\ [][ReloadNext]_vars

\* C20: schema loading is idempotent: after a second run with the same
\* service map and the same answers, the stored schemas and the four maps
\* are what they were after the first run, every extender once per type.
C20_LoadIdempotent == (pure.fn = "load" /\ pure.runs >= 2) => Stored = pure.once

(***************************************************************************)
(* A refresh: fetch_subgraph_schemas called again on the serving composer  *)
(* with the service map of the moment, which may have gained or lost       *)
(* subgraphs.  The function awaits one GET per service, so a request can   *)
(* run between two of its steps.  The answers of the subgraphs are drawn   *)
(* when the refresh starts.                                                *)
(***************************************************************************)
\* a subgraph answers the refresh with its SDL or the GET raises
RefreshOutcomes == {"ok", "exc"}

RefreshAnswers(services) ==
    {[s \in services |-> [outcome |-> o[s],
                          sdl |-> IF o[s] = "ok" THEN SdlOf(s) ELSE <<>>]] :
        o \in [services -> RefreshOutcomes]}

\* the loop of fetch_subgraph_schemas over the services still to fetch
RECURSIVE FetchQueue(_, _, _)
FetchQueue(st, answers, queue) ==
    IF queue = <<>> THEN st
    ELSE LET service_name == Head(queue)
             a == answers[service_name]
         IN  FetchQueue(IF a.outcome \in {"ok", "noSdl"}
                        THEN [sch |-> Put(st.sch, service_name, a.sdl),
                              m |-> ParseSchemaTypes(st.m, service_name, a.sdl)]
                        ELSE st,
                        answers, Tail(queue))

RefreshIdle == [fn |-> "refresh", pc |-> "idle", queue |-> <<>>, answers |-> <<>>,
                before |-> <<>>, loads |-> 1]

\* the requests of this specification: one answered by its owner as sent
\* and one that crosses services
RefreshQueries ==
    {[syntax_ok |-> TRUE, sels |-> d] :
        d \in {<<Node("posts", <<Leaf("id"), Leaf("title")>>)>>,
               <<Node("posts", <<Leaf("title"), Node("author", <<Leaf("name")>>)>>)>>}}

RefreshReceive == ReceiveFrom(RefreshQueries)

\* the startup load stored the posts schema and any of the others
RefreshInit ==
    /\ \E loaded \in SUBSET Services : "posts" \in loaded /\ Loaded(loaded)
    /\ run_storage_url = RunStorageUrl
    /\ pure = RefreshIdle

\* fetch_subgraph_schemas up to the first GET: self.service_urls = services
RefreshStart ==
    /\ pure.fn = "refresh"
    /\ pure.pc = "idle"
    /\ pure.loads < MaxLoads
    /\ \E services \in SUBSET Services :
         /\ service_urls' = [s \in services |-> UrlOf(s)]
         /\ \E answers \in RefreshAnswers(services) :
              pure' = [pure EXCEPT !.pc = "fetch",
                                   !.queue = SelectSeq(ServiceOrder,
                                                       LAMBDA s : s \in services),
                                   !.answers = answers,
                                   !.before = maps,
                                   !.loads = pure.loads + 1]
    /\ UNCHANGED <<schemas, type_to_service, type_extensions,
                   query_field_to_service, field_to_return_type,
                   run_service_calls, run_storage_url, loader, req, peer, net>>

\* one iteration of the loop of fetch_subgraph_schemas
RefreshStep ==
    /\ pure.fn = "refresh"
    /\ pure.pc = "fetch"
    /\ pure.queue # <<>>
    /\ LET service_name == Head(pure.queue)
           st == FetchQueue([sch |-> schemas, m |-> CurrentMaps], pure.answers,
                            <<service_name>>)
       IN  /\ schemas' = st.sch
           /\ type_to_service' = st.m.tts
           /\ type_extensions' = st.m.ext
           /\ query_field_to_service' = st.m.qfs
           /\ field_to_return_type' = st.m.ftr
           /\ net' = Append(net, [phase |-> "schema", service |-> service_name,
                                  url |-> service_urls[service_name]])
    /\ pure' = [pure EXCEPT !.queue = Tail(pure.queue)]
    /\ UNCHANGED <<service_urls, run_service_calls, run_storage_url, loader, req, peer>>

\* the return of fetch_subgraph_schemas
RefreshReturn ==
    /\ pure.fn = "refresh"
    /\ pure.pc = "fetch"
    /\ pure.queue = <<>>
    /\ pure' = [pure EXCEPT !.pc = "idle", !.answers = <<>>, !.before = <<>>]
    /\ UNCHANGED <<maps, run_service_calls, run_storage_url, loader, req, peer, net>>

RefreshNext ==
    \/ RefreshStart
    \/ RefreshStep
    \/ RefreshReturn
    \/ RefreshReceive
    \/ ExecCall
    \/ ExecJoin
    \/ ResolveCall
    \/ ResolveJoin
    \/ RecordRun

SpecRefresh == RefreshInit /\ [][RefreshNext]_vars

\* the maps as the running refresh will leave them
MapsAfterRefresh ==
    LET st == FetchQueue([sch |-> schemas, m |-> CurrentMaps], pure.answers, pure.queue)
    IN  <<st.sch, service_urls, st.m.tts, st.m.ext, st.m.qfs, st.m.ftr>>

\* a step of a request that has been routed and is not merged yet
RequestReads == req' # req /\ req.pc \in {"exec", "resolve"}

\* C21: a step of a request taken while a refresh is running finds the
\* service map and the ownership maps either as they were before the
\* refresh or as the refresh leaves them, never partly updated.
C21_MapsReadAtomically ==
    [][(RequestReads /\ pure.fn = "refresh" /\ pure.pc = "fetch") =>
          (maps = pure.before \/ maps = MapsAfterRefresh)]_vars

\* the fields of a selection set at any depth, those inside inline
\* fragments included
RECURSIVE FieldsOf(_)
FieldsOf(selection_set) ==
    UNION {(IF IsFieldNode(selection_set[i]) THEN {selection_set[i]} ELSE {})
             \cup FieldsOf(selection_set[i].sel) : i \in DOMAIN selection_set}

\* the transformer's own inference says the field returns an entity of a
\* subgraph other than service_name
OwnedByOther(field_name, service_name) ==
    /\ TransformInferType(field_name) \in DOMAIN type_to_service
    /\ type_to_service[TransformInferType(field_name)] # service_name

\* C22: in the tree the transformer returns for subgraph s, every field
\* with a sub-selection whose inferred return type another subgraph owns
\* has the sub-selection [id]; the tree keeps the number and order of the
\* root selections, and the input is left as it was.
C22_StubbingRule ==
    pure.fn = "transformed" =>
       /\ \A f \in FieldsOf(pure.once) :
             (f.sel # <<>> /\ OwnedByOther(f.name, pure.service_name)) =>
                f.sel = StubSelection
       /\ Len(pure.once) = Len(pure.document)

(***************************************************************************)
(* The router alone, over maps built from schemas in which a subgraph may  *)
(* extend another's type or declare its type without any root field.       *)
(***************************************************************************)
\* the SDL of s without its "type Query { ... }" block
TypesOnly(s) == SubSeq(SdlOf(s), 1, Len(SdlOf(s)) - 3)

RouteAnswersOf(s) ==
    {[outcome |-> "ok", sdl |-> t] : t \in SdlTexts(s) \cup {TypesOnly(s)}}
      \cup {[outcome |-> "exc", sdl |-> <<>>]}

RouteAnswers ==
    {[posts |-> x, users |-> y, orders |-> z] :
        x \in RouteAnswersOf("posts"), y \in RouteAnswersOf("users"),
        z \in RouteAnswersOf("orders")}

\* the root field names of a request
RootFields == {"posts", "users", "orders", "things"}

\* the composer after a startup load with the given answers
LoadedWith(answers) ==
    LET st == FetchAll([sch |-> EmptyMap, m |-> EmptyMaps], answers, 1)
    IN  /\ schemas = st.sch
        /\ service_urls = [s \in Services |-> UrlOf(s)]
        /\ type_to_service = st.m.tts
        /\ type_extensions = st.m.ext
        /\ query_field_to_service = st.m.qfs
        /\ field_to_return_type = st.m.ftr
        /\ run_service_calls = EmptyMap
        /\ run_storage_url = RunStorageUrl
        /\ loader = [pc |-> "serving", queue |-> <<>>, failed |-> {}]
        /\ req = ReqIdle
        /\ peer = ReqIdle
        /\ net = <<>>

RouteInit ==
    /\ \E answers \in RouteAnswers : LoadedWith(answers)
    /\ pure \in {[fn |-> "route", queried_fields |-> f] :
                   f \in (SUBSET RootFields) \ {{}}}

ApplyRoute ==
    /\ pure.fn = "route"
    /\ pure' = [fn |-> "routed", queried_fields |-> pure.queried_fields,
                services |-> DetermineServicesForQuery(pure.queried_fields)]
    /\ UNCHANGED <<maps, run_storage_url, peer, run_service_calls, loader, req, net>>

RouteNext == ApplyRoute

SpecRoute == RouteInit /\ [][RouteNext]_vars

\* the subgraph is the direct owner of the root field
DirectOwner(s, f) ==
    f \in DOMAIN query_field_to_service /\ query_field_to_service[f] = s

\* the root field has no direct owner and the subgraph owns or extends the
\* type its name stands for
TypeOwnerOrExtender(s, f) ==
    /\ f \notin DOMAIN query_field_to_service
    /\ \/ /\ FieldToTypeName(f) \in DOMAIN type_to_service
          /\ type_to_service[FieldToTypeName(f)] = s
       \/ /\ FieldToTypeName(f) \in DOMAIN type_extensions
          /\ s \in Range(type_extensions[FieldToTypeName(f)])

\* C23: a subgraph is routed to exactly if, for some root field, it is the
\* field's direct owner, or the field has no direct owner and the subgraph
\* owns or extends the singularized-capitalized type; the type maps are
\* not consulted for a field that has a direct owner.
C23_RouterRule ==
    pure.fn = "routed" =>
       \A s \in Services \cup pure.services :
          s \in pure.services <=>
             \E f \in pure.queried_fields : DirectOwner(s, f) \/ TypeOwnerOrExtender(s, f)

\* one field routed by its direct owner although another subgraph extends
\* its type, and one routed through the type maps to owner and extender
C23_Witness ==
    /\ pure.fn = "routed"
    /\ \E f \in pure.queried_fields :
         /\ f \in DOMAIN query_field_to_service
         /\ FieldToTypeName(f) \in DOMAIN type_extensions
    /\ \E f \in pure.queried_fields :
         /\ f \notin DOMAIN query_field_to_service
         /\ FieldToTypeName(f) \in DOMAIN type_to_service
         /\ FieldToTypeName(f) \in DOMAIN type_extensions
         /\ type_to_service[FieldToTypeName(f)] \in pure.services
         /\ Range(type_extensions[FieldToTypeName(f)]) \subseteq pure.services
    /\ pure.services # Services

(***************************************************************************)
(* The entity-resolution check alone, over the documents of the            *)
(* transformer's specification.                                            *)
(***************************************************************************)
CheckInit ==
    /\ \E loaded \in SUBSET Services : Loaded(loaded)
    /\ run_storage_url = RunStorageUrl
    /\ pure \in {[fn |-> "check", document |-> d] : d \in TransformDocuments}

ApplyCheck ==
    /\ pure.fn = "check"
    /\ pure' = [fn |-> "checked", document |-> pure.document,
                needs |-> CheckNeedsEntityResolution(pure.document)]
    /\ UNCHANGED <<maps, run_storage_url, peer, run_service_calls, loader, req, net>>

CheckNext == ApplyCheck

SpecCheck == CheckInit /\ [][CheckNext]_vars

\* the fields a selection set selects directly, those of its inline
\* fragments included
RECURSIVE DirectFields(_)
DirectFields(selection_set) ==
    UNION {IF IsFieldNode(selection_set[i]) THEN {selection_set[i]}
           ELSE DirectFields(selection_set[i].sel) : i \in DOMAIN selection_set}

\* a field with a sub-selection, a return type that has an owner, and a
\* selected field other than id and __typename
NeedsEntity(f) ==
    /\ f.sel # <<>>
    /\ InferType(f.name) \in DOMAIN type_to_service
    /\ \E g \in DirectFields(f.sel) : g.name \notin {"id", "__typename"}

\* C24: the entity-resolution check is true exactly when some field nested
\* at any depth below a root field has a sub-selection, an inferred return
\* type present in type_to_service, and a selected field other than id or
\* __typename; a root field itself never triggers it.
C24_CheckExact ==
    pure.fn = "checked" =>
       (pure.needs <=>
          \E root \in DirectFields(pure.document) :
             \E f \in FieldsOf(root.sel) : NeedsEntity(f))

(***************************************************************************)
(* The stub extraction alone, over the result dicts of the splicer's       *)
(* specification.                                                          *)
(***************************************************************************)
ExtractInit ==
    /\ \E loaded \in SUBSET Services : Loaded(loaded)
    /\ run_storage_url = RunStorageUrl
    /\ pure \in {[fn |-> "extract", results |-> r] : r \in SpliceResults(MaxItems)}

ApplyExtract ==
    /\ pure.fn = "extract"
    /\ pure' = [fn |-> "extracted", results |-> pure.results,
                out |-> ExtractEntityReferences(pure.results)]
    /\ UNCHANGED <<maps, run_storage_url, peer, run_service_calls, loader, req, net>>

ExtractNext == ApplyExtract

SpecExtract == ExtractInit /\ [][ExtractNext]_vars

\* every object of a data tree that has an id and at most one other field,
\* with the type of its enclosing field; list items take the list's type
RECURSIVE AllStubs(_, _)
AllStubs(value, parent_type) ==
    CASE value.kind = "o" ->
           (IF IsStubShape(value) /\ parent_type # ""
            THEN {[typename |-> parent_type, id |-> value.f["id"]]} ELSE {})
             \cup UNION {AllStubs(value.f[k], KeyType(k, value.f[k])) : k \in DOMAIN value.f}
      [] value.kind = "l" ->
           UNION {AllStubs(value.items[i], parent_type) : i \in DOMAIN value.items}
      [] OTHER -> {}

\* C25: the extraction walks the whole data tree of every result, and every
\* object made of id and at most one other field is returned as a stub of
\* its enclosing field's type (here: whenever that type has an owner).
C25_ExtractionWalksWholeTree ==
    (pure.fn = "extracted" /\ ~pure.out.raised) =>
       \A s \in DOMAIN pure.results.map :
          LET result == pure.results.map[s]
          IN  (In(result, "data") /\ Truthy(result.f["data"])) =>
                 \A r \in AllStubs(result.f["data"], "") :
                    r.typename \in DOMAIN type_to_service =>
                       /\ r.typename \in DOMAIN pure.out.val.map
                       /\ r \in Range(pure.out.val.map[r.typename])

\* the names the query selects below the fields that return type_name
SelectedFor(document, type_name) ==
    UNION {{f.sel[j].name : j \in DOMAIN f.sel} :
             f \in {g \in FieldsOf(document) : InferType(g.name) = type_name}}

\* the resolve calls sent for type_name
ResolveCallsFor(type_name) == {j \in ResolveCalls : net[j].type_name = type_name}

OwnBlock(type_name) ==
    <<DeclLine("", type_name, TRUE, FALSE), FieldLine("id", FALSE, "ID"), CloseLine>>

\* "extend type T @key(fields: "id") { id: ID! }"
ExtendBlock(type_name) ==
    <<DeclLine("extend", type_name, TRUE, FALSE), FieldLine("id", FALSE, "ID"), CloseLine>>

\* "type Query { f: [T] }"
QueryBlock(field_name, type_name) ==
    <<DeclLine("", "Query", FALSE, FALSE), FieldLine(field_name, FALSE, type_name),
      CloseLine>>

\* the types of the other subgraphs
OtherTypes(s) == {"User", "Post"} \ {FieldToTypeName(s)}

BuildSdls(s) ==
    {SdlOf(s)}
      \cup {SdlOf(s) \o OwnBlock(t) : t \in OtherTypes(s)}
      \cup {SdlOf(s) \o ExtendBlock(t) : t \in OtherTypes(s)}
      \cup {SdlOf(s) \o ExtendsBlock(t) : t \in OtherTypes(s)}
      \cup {SdlOf(s) \o QueryBlock(f, FieldToTypeName(f)) : f \in {"posts", "users"} \ {s}}

BuildInputs ==
    {[posts |-> x, users |-> y, orders |-> z] :
        x \in BuildSdls("posts"), y \in BuildSdls("users"), z \in BuildSdls("orders")}

BuildInit ==
    /\ schemas = EmptyMap
    /\ service_urls = [s \in Services |-> UrlOf(s)]
    /\ type_to_service = EmptyMap
    /\ type_extensions = EmptyMap
    /\ query_field_to_service = EmptyMap
    /\ field_to_return_type = EmptyMap
    /\ run_service_calls = EmptyMap
    /\ run_storage_url = RunStorageUrl
    /\ loader = [pc |-> "fetch", queue |-> <<>>, failed |-> {}]
    /\ req = ReqIdle
    /\ peer = ReqIdle
    /\ net = <<>>
    /\ pure \in {[fn |-> "build", sdls |-> b, parsed |-> <<>>] : b \in BuildInputs}

\* self.schemas[service_name] = sdl; self._parse_schema_types(service_name, sdl)
ParseOne ==
    /\ pure.fn = "build"
    /\ \E service_name \in Services \ Range(pure.parsed) :
         LET m == ParseSchemaTypes(CurrentMaps, service_name, pure.sdls[service_name])
         IN  /\ schemas' = Put(schemas, service_name, pure.sdls[service_name])
             /\ type_to_service' = m.tts
             /\ type_extensions' = m.ext
             /\ query_field_to_service' = m.qfs
             /\ field_to_return_type' = m.ftr
             /\ pure' = [pure EXCEPT !.parsed = Append(pure.parsed, service_name)]
    /\ UNCHANGED <<service_urls, run_service_calls, run_storage_url, loader, req, peer, net>>

BuildNext == ParseOne

SpecBuild == BuildInit /\ [][BuildNext]_vars

\* the subgraph whose schema has just been parsed
JustParsed == pure'.parsed[Len(pure'.parsed)]

\* the value of a map at a key, "" if the key is absent
At(map, key) == IF key \in DOMAIN map THEN map[key] ELSE ""
ListAt(map, key) == IF key \in DOMAIN map THEN map[key] ELSE <<>>

\* C27: when the schema of s is parsed, a key-marked line "extend type X"
\* adds s to type_extensions[X] and leaves type_to_service[X] as it was; a
\* key-marked line "type X" without extend sets type_to_service[X] = s and
\* leaves type_extensions[X] as it was.
C27_OwnershipVersusExtension ==
    [][(pure.fn = "build" /\ pure'.parsed # pure.parsed) =>
         \A i \in DOMAIN pure.sdls[JustParsed] :
            LET line == pure.sdls[JustParsed][i]
            IN  /\ (line.t = "decl" /\ line.key /\ line.prefix = "extend") =>
                      /\ JustParsed \in Range(ListAt(type_extensions', line.name))
                      /\ At(type_to_service', line.name) = At(type_to_service, line.name)
                /\ (line.t = "decl" /\ line.key /\ ~ContainsExtend(line)) =>
                      /\ At(type_to_service', line.name) = JustParsed
                      /\ ListAt(type_extensions', line.name)
                            = ListAt(type_extensions, line.name)]_vars

\* the subgraphs parsed so far whose schema declares type_name as an owned
\* type: a key-marked "type" line with no "extend" in it
TypeDeclarers(type_name) ==
    {i \in DOMAIN pure.parsed :
        \E j \in DOMAIN pure.sdls[pure.parsed[i]] :
           LET line == pure.sdls[pure.parsed[i]][j]
           IN  /\ line.t = "decl" /\ line.key /\ line.prefix = "" /\ ~line.extdir
               /\ line.name = type_name}

\* the field lines of the "type Query" blocks of a schema
QueryFieldLines(sdl) ==
    {j \in DOMAIN sdl :
        /\ sdl[j].t = "field"
        /\ \E q \in 1..(j - 1) :
              /\ sdl[q].t = "decl" /\ sdl[q].name = "Query" /\ sdl[q].prefix = ""
              /\ \A c \in (q + 1)..(j - 1) : sdl[c].t = "field"}

\* the subgraphs parsed so far whose schema has field_name in type Query
FieldDeclarers(field_name) ==
    {i \in DOMAIN pure.parsed :
        \E j \in QueryFieldLines(pure.sdls[pure.parsed[i]]) :
           pure.sdls[pure.parsed[i]][j].name = field_name}

\* the position of the last parse among a non-empty set of positions
LastParse(positions) == CHOOSE i \in positions : \A k \in positions : k <= i

\* C28: whatever the order in which the schemas were parsed, the owner of a
\* type is the subgraph parsed last among those that declare it key-marked
\* without extend, and a type nobody declares so has no owner; the same for
\* the fields of type Query.
C28_LastWriteWins ==
    pure.fn = "build" =>
       /\ \A type_name \in {"User", "Post", "Order"} :
             IF TypeDeclarers(type_name) = {}
             THEN type_name \notin DOMAIN type_to_service
             ELSE At(type_to_service, type_name)
                    = pure.parsed[LastParse(TypeDeclarers(type_name))]
       /\ \A field_name \in {"posts", "users", "orders"} :
             IF FieldDeclarers(field_name) = {}
             THEN field_name \notin DOMAIN query_field_to_service
             ELSE At(query_field_to_service, field_name)
                    = pure.parsed[LastParse(FieldDeclarers(field_name))]

\* two subgraphs have declared User, and the one that usually owns it was
\* not the last to be parsed; likewise for a root field
C28_Witness ==
    /\ pure.fn = "build"
    /\ Cardinality(TypeDeclarers("User")) = 2
    /\ At(type_to_service, "User") = "orders"
    /\ Cardinality(FieldDeclarers("posts")) = 2
    /\ At(query_field_to_service, "posts") # "posts"

(***************************************************************************)
(* Type inference along the pipeline: a document is transformed for a      *)
(* subgraph, the subgraph answers the transformed query, and the answer is *)
(* walked by the extractor and by the splicer.                             *)
(***************************************************************************)
InferAuthors ==
    {Node("author", <<Leaf("name")>>),
     Node("author", <<Leaf("id"), Leaf("name")>>),
     Aliased("author", "writer", <<Leaf("name")>>),
     Aliased("author", "writer", <<Leaf("id"), Leaf("name")>>)}

InferDocuments ==
    {<<Aliased("posts", top, sib \o <<a>>)>> :
        top \in {"", "top"},
        sib \in {<<Leaf("title")>>, <<Leaf("id"), Leaf("title")>>},
        a \in InferAuthors}

\* what the owners return for the entities of the types that have an owner
InferResolved ==
    [type_name \in DOMAIN type_to_service |->
       JList([i \in 1..CountOf(type_name) |->
                EntityOf(type_to_service[type_name], type_name,
                         [id |-> JStr(IdOf(type_name, i))], {"id", "name", "title"})])]

InferInit ==
    /\ \E loaded \in SUBSET Services : Loaded(loaded)
    /\ run_storage_url = RunStorageUrl
    /\ pure \in {[fn |-> "infer", document |-> d, service_name |-> s] :
                   d \in InferDocuments, s \in Services}

\* _transform_query_for_service, the subgraph's answer to its result,
\* extract_from_value and merge_into_value on the data of the answer
ApplyInfer ==
    /\ pure.fn = "infer"
    /\ LET once == TransformQueryForService(pure.document, pure.service_name)
           data == RootData(pure.service_name, once)
       IN  pure' = [fn |-> "inferred", document |-> pure.document,
                    service_name |-> pure.service_name, once |-> once,
                    data |-> data,
                    refs |-> ExtractFromValue(data, ""),
                    spliced |-> MergeIntoValue(data, "", InferResolved).val]
    /\ UNCHANGED <<maps, run_storage_url, peer, run_service_calls, loader, req, net>>

InferNext == ApplyInfer

SpecInfer == InferInit /\ [][InferNext]_vars

\* transform_field_node stubs a field for service_name
StubbedFor(node, service_name) ==
    /\ node.sel # <<>>
    /\ TransformInferType(node.name) \in DOMAIN type_to_service
    /\ type_to_service[TransformInferType(node.name)] # service_name

\* C29: for a field the transformer stubs, the analyzer infers the same
\* type as the transformer, every stub the subgraph returns under the
\* field's response key is extracted as a reference of that type, and the
\* splicer replaces it by the entity of that type, alias or no alias.
C29_InferenceConsistent ==
    pure.fn = "inferred" =>
       \A i \in DOMAIN pure.document :
          \A j \in DOMAIN pure.document[i].sel :
             LET root == pure.document[i]
                 node == root.sel[j]
                 type_name == TransformInferType(node.name)
             IN  (/\ ~StubbedFor(root, pure.service_name)
                  /\ StubbedFor(node, pure.service_name)
                  /\ ResponseKey(root) \in DOMAIN pure.data.f) =>
                    \A k \in DOMAIN pure.data.f[ResponseKey(root)].items :
                       LET item == pure.data.f[ResponseKey(root)].items[k]
                           out == pure.spliced.f[ResponseKey(root)].items[k]
                       IN  ResponseKey(node) \in DOMAIN item.f =>
                             LET stub == item.f[ResponseKey(node)]
                                 ref == [typename |-> type_name, id |-> stub.f["id"]]
                             IN  /\ InferType(node.name) = type_name
                                 /\ ref \in Range(pure.refs)
                                 /\ out.f[ResponseKey(node)]
                                      = EntityOf(type_to_service[type_name], type_name,
                                                 ref, {"id", "name", "title"})

\* the subgraphs the ownership maps name as owner or extender
NamedSubgraphs ==
    Range(type_to_service) \cup Range(query_field_to_service)
      \cup UNION {Range(type_extensions[type_name]) :
                    type_name \in DOMAIN type_extensions}

\* no load is running and none will start
LoadsOver == pure.fn = "refresh" /\ pure.pc = "idle" /\ pure.loads = MaxLoads

\* C30: once a load or refresh has returned, every subgraph the ownership
\* maps name has a URL in the service map; and a parsed request that is
\* over while some subgraph is known has made a subgraph call.
C30_OwnersAreKnownSubgraphs ==
    /\ (pure.fn = "refresh" /\ pure.pc = "idle") =>
          NamedSubgraphs \subseteq DOMAIN service_urls
    /\ (LoadsOver /\ req.pc = "done" /\ req.query.syntax_ok
           /\ DOMAIN service_urls # {}) =>
          ExecCalls # {}

====
